---- MODULE Spec2Model ----
(***************************************************************************)
(* A model of s3-backup: the sync run of s3_backup/__init__.py (do_sync,   *)
(* File.supersedes, S3File) against a local tree, an S3 bucket and the     *)
(* sqlite cache, and the upload decision of the backup items.              *)
(***************************************************************************)
EXTENDS Integers, Sequences, FiniteSets, TLC

\* ------------------------------------------------------------------ bounds
MaxTime == 3
MaxRuns == 2
MaxEdits == 1
TicksPerSecond == 2
MaxVanish == 1

\* the clock when the model starts, in ticks
InitTime == 1

\* ------------------------------------------------------------ the universe
Files == {"a", "b"}
Keys == {"a", "b", "z"}
Contents == {"p", "qq"}
\* the commands given to a run: <<filename_xform_cmd, data_xform_cmd>>
Commands == {<<"None", "None">>, <<"same", "pad">>, <<"None", "false">>}

\* len() of a file content
Size(c) == IF c = "p" THEN 1 ELSE 2

\* str(n) and int(s) on the sizes that occur
Str(n) == CASE n = 0 -> "0" [] n = 1 -> "1" [] n = 2 -> "2" [] n = 3 -> "3" [] OTHER -> "4"
ParseInt(s) == CHOOSE n \in 0..4 : Str(n) = s

\* int(timestamp): a time in ticks truncated to whole seconds
Seconds(t) == t \div TicksPerSecond

\* SQL NULL / Python None in an integer column and in a text column
NullInt == 0 - 1
NullText == <<>>

\* dict.get(name): <<>> for None, <<value>> otherwise
MetaGet(md, name) == IF name \in DOMAIN md THEN <<md[name]>> ELSE <<>>

int_or_none(something) == IF something = <<>> THEN NullInt ELSE ParseInt(something[1])
text_or_none(something) == IF something = <<>> THEN NullText ELSE something[1]

\* LocalFile.digest_: "{algorithm}hexdigest"; the digest of a content is
\* identified with the content
LocalDigest(c) == <<"SHA256", c>>

\* S3File.digest_: row is the tuple fetchone() returned, it has no startswith
S3FileDigest(row) == "AttributeError"

\* the exit code of the key transform command for this filename; the command
\* "failb" fails on the file b
returncode(xform, filename) == IF xform = "failb" /\ filename = "b" THEN 1 ELSE 0

\* filename_xform: the stdout of the command for this filename; the command
\* "same" prints the same key for every file, "drop" prints nothing for the
\* file a, the others print the filename
filename_xform(xform, filename) ==
    CASE xform = "same" -> "z"
      [] xform = "drop" /\ filename = "a" -> ""
      [] OTHER -> filename

\* DataXform: the bytes read from the transform and their count (f.size)
DataXformBody(xform, c) == <<xform, c>>
DataXformSize(xform, c) == IF xform = "pad" THEN Size(c) + 1 ELSE Size(c)

Remove(f, k) == [x \in DOMAIN f \ {k} |-> f[x]]
Put(f, k, v) == (k :> v) @@ f

\* S3File._update_cache: the row made from head_object
UpdateCacheRow(obj) ==
    [size |-> obj.size,
     mtime |-> obj.lastModified,
     plaintext_size |-> int_or_none(MetaGet(obj.metadata, "plaintext-size")),
     plaintext_hash |-> text_or_none(MetaGet(obj.metadata, "plaintext-hash"))]

\* S3File.fill_cache: one row per listed object
FillCacheRows(b) == [k \in DOMAIN b |-> UpdateCacheRow(b[k])]

\* objects found in the bucket before the first run: one put by someone else
\* without metadata, one uploaded earlier by this program
ExtObj == [body |-> <<"ext", "p">>, size |-> 1, lastModified |-> 0, metadata |-> <<>>]
OldObj == [body |-> <<"None", "p">>, size |-> 1, lastModified |-> 0,
           metadata |-> ("plaintext-size" :> Str(1)) @@ ("plaintext-hash" :> LocalDigest("p"))]

VARIABLES
    tree,               \* local files: filename -> [c, mtime (ticks)]
    now,                \* the clock, in ticks
    bucket,             \* S3: key -> [body, size, lastModified (s), metadata]
    has_cache,          \* the table s3_cache exists
    s3_cache,           \* key -> [size, mtime (s), plaintext_size, plaintext_hash]
    seen,               \* the temporary table seen
    pc,                 \* position of do_sync
    todo,               \* files list_files has not yielded yet
    cur,                \* the file in hand: [file, key, size]
    sweep,              \* rows left in delete_unseen's cursor
    filename_xform_cmd, data_xform_cmd, trust_mtime,
    put_calls,          \* upload_fileobj calls of this run, per key
    delete_calls,       \* delete_object calls of this run, per key
    edited,             \* the tree changed since the last run stopped
    repeat,             \* this run follows a completed run, nothing changed between
    restart,            \* this run follows a crashed run over the same tree
    expected,           \* the bucket a run without crash would have left
    uncommitted,        \* keys of a store call a crash cut off from its cache write
    empty_start,        \* this run started with an empty bucket and no cache rows
    runs, edits,
    dry_run,            \* this run was called with dry_run = True
    call,               \* a call of should_upload: item, arguments, settings
    result,             \* what the call returned or raised, "pending" before
    digests,            \* the algorithms the call computed a digest of the file with
    lru,                \* what lru_cache holds of the item after the call: stat, digest
    again,              \* what a second call on the same item returned or raised
    underlying_it,      \* the items the grouping stage is given, in scan order
    size_threshold,     \* GroupSmallFilesWrapper.size_threshold
    gpc,                \* position of the grouping stage
    passed,             \* the items the stage yielded unmodified
    small_files,        \* the items the stage kept for grouping
    group_tree,         \* the Tree of group_files
    groups,             \* the GroupedItems the stage yielded
    regroups,           \* the GroupedItems of a later scan, same items in another order
    archive,            \* what fileobj() of one of the groups produced
    sweep_cache,        \* keys in s3_cache when delete_unseen ran its query
    skipped,            \* KeyTransformCmdWrapper.skipped
    vanishes,           \* files that went away under a running scan
    excl_it,            \* the items the exclusion stage is given, in order
    exclude_re,         \* ExcludeReWrapper.exclude_re
    epos,               \* how many of the entries the stage has taken
    yielded,            \* the items the exclusion stage yielded
    excluded_files,     \* ExcludeReWrapper.excluded_files
    reader,             \* the class of the object upload_fileobj reads from
    subprocess,         \* the reader has a transform process
    return_code,        \* the exit code of the transform process
    output,             \* what the process has written and the reader not read yet
    read_size,          \* the size attribute of the reader
    reads,              \* the read() calls so far: what each returned or raised
    closed,             \* what close() did, "pending" before
    has_v2,             \* the tables s3_object_info and s3_metadata exist
    s3_object_info,     \* key -> [size, mtime (s)]
    s3_metadata,        \* <<key, name>> -> value
    has_flag,           \* the temporary table flag exists
    flag,               \* the keys in the table flag
    snapshot,           \* the tables when the open transaction began, <<>> if none is open
    cpc,                \* position of the call on the cache
    op,                 \* the call in hand, or the last one: name, arguments, outcome
    prev,               \* the tables when that call began
    flagged,            \* the keys flag() was called with since clear_flags()
    ops,                \* the number of calls made on the cache
    upstream,           \* what the wrapped item's fileobj() yields: "BytesIO" or "file"
    orig_fileobj,       \* the blobs of the upstream content nobody has read yet
    f_orig,             \* the upstream file handle: "open" or "closed"
    stdin_pump,         \* position of the pump thread, "none" if none was started
    joined,             \* stdin_pump.join() has returned
    stdin_pipe,         \* the blobs in the pipe to the process
    stdin_open,         \* the write end of that pipe is open
    transform_process,  \* the process: the call it is in, what it may still write, exit code
    stdout_pipe,        \* the blobs in the pipe self.output reads from
    stderr_pipe,        \* the blobs in the pipe of subprocess.stderr
    waited,             \* subprocess.wait() has returned
    consumer,           \* position of the thread that entered the with statement
    fault               \* the consumer may raise in the middle of reading

vars == <<tree, now, bucket, has_cache, s3_cache, seen, pc, todo, cur, sweep,
          filename_xform_cmd, data_xform_cmd, trust_mtime, put_calls, delete_calls,
          edited, repeat, restart, expected, sweep_cache,
          runs, edits, uncommitted, empty_start, dry_run, call, result, digests,
          lru, again, underlying_it, size_threshold, gpc, passed, small_files,
          group_tree, groups, regroups, archive, skipped, vanishes,
          excl_it, exclude_re, epos, yielded, excluded_files,
          reader, subprocess, return_code, output, read_size, reads, closed,
          has_v2, s3_object_info, s3_metadata, has_flag, flag, snapshot, cpc, op, prev,
          flagged, ops,
          upstream, orig_fileobj, f_orig, stdin_pump, joined, stdin_pipe, stdin_open,
          transform_process, stdout_pipe, stderr_pipe, waited, consumer, fault>>

config == <<filename_xform_cmd, data_xform_cmd, trust_mtime>>
process == <<seen, todo, cur, sweep>>
calls == <<put_calls, delete_calls, sweep_cache>>
history == <<repeat, restart, expected, runs, edits, empty_start>>
crashes == <<uncommitted>>
decision == <<call, result, digests, lru, again>>
grouping == <<underlying_it, size_threshold, gpc, passed, small_files, group_tree,
              groups, regroups, archive>>

Stopped == {"idle", "done", "crashed", "failed"}
NoLru == [stat |-> <<>>, digest |-> <<>>]
\* the grouping stage has not been given anything
NoGrouping ==
    /\ underlying_it = <<>>
    /\ size_threshold = 0
    /\ gpc = "idle"
    /\ passed = <<>>
    /\ small_files = <<>>
    /\ group_tree = <<>>
    /\ groups = <<>>
    /\ regroups = <<>>
    /\ archive = <<>>
pipeline == <<skipped, vanishes>>
excluding == <<excl_it, exclude_re, epos, yielded, excluded_files>>
reading == <<reader, subprocess, return_code, output, read_size, reads, closed>>
caching == <<has_v2, s3_object_info, s3_metadata, has_flag, flag, snapshot, cpc, op, prev,
             flagged, ops>>
piping == <<upstream, orig_fileobj, f_orig, stdin_pump, joined, stdin_pipe, stdin_open,
            transform_process, stdout_pipe, stderr_pipe, waited, consumer, fault>>
stages == <<excluding, reading, caching, piping>>
\* nothing was skipped, nothing went away
NoPipeline == skipped = 0 /\ vanishes = 0
\* the other stages have not been given anything
NoExcluding ==
    /\ excl_it = <<>>
    /\ exclude_re = <<>>
    /\ epos = 0
    /\ yielded = <<>>
    /\ excluded_files = 0
NoReading ==
    /\ reader = "None"
    /\ subprocess = FALSE
    /\ return_code = 0
    /\ output = <<>>
    /\ read_size = 0
    /\ reads = <<>>
    /\ closed = "pending"
NoOp == [name |-> "none", key |-> "", value |-> <<>>, outcome |-> "none", again |-> FALSE,
         todo |-> {}]
NoCaching ==
    /\ has_v2 = FALSE
    /\ s3_object_info = <<>>
    /\ s3_metadata = <<>>
    /\ has_flag = FALSE
    /\ flag = {}
    /\ snapshot = <<>>
    /\ cpc = "closed"
    /\ op = NoOp
    /\ prev = <<>>
    /\ flagged = {}
    /\ ops = 0
NoProcess == [op |-> "none", eof |-> FALSE, out |-> 0, err |-> 0, code |-> 0]
NoPiping ==
    /\ upstream = "none"
    /\ orig_fileobj = 0
    /\ f_orig = "closed"
    /\ stdin_pump = "none"
    /\ joined = FALSE
    /\ stdin_pipe = 0
    /\ stdin_open = FALSE
    /\ transform_process = NoProcess
    /\ stdout_pipe = 0
    /\ stderr_pipe = 0
    /\ waited = FALSE
    /\ consumer = "none"
    /\ fault = FALSE
NoStages == NoExcluding /\ NoReading /\ NoCaching /\ NoPiping
NoCalls == [k \in Keys |-> 0]
NoCur == [file |-> "", key |-> "", size |-> 0]

\* the files found at the start were written at time 0 or just now
InitTrees == UNION {[S -> [c : {"p"}, mtime : {0, InitTime}]] : S \in SUBSET Files}
InitBuckets == {<<>>, "z" :> ExtObj, "b" :> OldObj, ("b" :> OldObj) @@ ("z" :> ExtObj)}

\* the state before the first run, with one of the given commands and one of
\* the given buckets
Start(commands, buckets) ==
    /\ tree \in InitTrees
    /\ now = InitTime
    /\ bucket \in buckets
    /\ has_cache = FALSE
    /\ s3_cache = <<>>
    /\ seen = {}
    /\ pc = "idle"
    /\ todo = {}
    /\ cur = NoCur
    /\ sweep = {}
    /\ \E cmd \in commands : filename_xform_cmd = cmd[1] /\ data_xform_cmd = cmd[2]
    /\ trust_mtime \in BOOLEAN
    /\ put_calls = NoCalls
    /\ delete_calls = NoCalls
    /\ edited = FALSE
    /\ repeat = FALSE
    /\ restart = FALSE
    /\ expected = [returns |-> FALSE, bodies |-> <<>>]
    /\ uncommitted = {}
    /\ empty_start = FALSE
    /\ runs = 0
    /\ edits = 0
    /\ sweep_cache = {}
    /\ dry_run = FALSE
    /\ call = <<>>
    /\ result = "pending"
    /\ digests = {}
    /\ lru = NoLru
    /\ again = "pending"
    /\ NoGrouping
    /\ NoPipeline
    /\ NoStages

Init == Start(Commands, InitBuckets)

\* File.supersedes(local_file, s3_file): "upload" for a reason string, "skip"
\* for False, "raise" when the comparison raises
Supersedes(lf, key, cache) ==
    IF key \notin DOMAIN cache THEN "upload"
    ELSE IF trust_mtime /\ lf.mtime > cache[key].mtime * TicksPerSecond THEN "upload"
    ELSE IF Size(lf.c) # cache[key].plaintext_size THEN "upload"
    ELSE IF S3FileDigest(cache[key]) = "AttributeError" THEN "raise"
    ELSE IF LocalDigest(lf.c) # S3FileDigest(cache[key]) THEN "upload"
    ELSE "skip"

\* ------------------------------------------------------------- the run
\* an operation that reads the clock reads a time t in now..MaxTime: time
\* has passed since the last reading

\* the bodies a run of do_sync that nothing interrupts leaves in the bucket b,
\* starting with the rows cache; returns is FALSE when it ends in an exception
Uninterrupted(b, cache) ==
    LET key(f) == filename_xform(filename_xform_cmd, f)
        reason(f) == Supersedes(tree[f], key(f), cache)
        uploaded == {key(f) : f \in {g \in DOMAIN tree : reason(g) = "upload"}}
        marked == {key(f) : f \in DOMAIN tree}
        deleted == (DOMAIN cache \cup uploaded) \ marked
        file(k) == CHOOSE f \in DOMAIN tree : key(f) = k
    IN IF \/ \E f \in DOMAIN tree : reason(f) = "raise"
          \/ uploaded # {} /\ data_xform_cmd = "false"
          \/ \E f, g \in DOMAIN tree : f # g /\ key(f) = key(g)
         THEN [returns |-> FALSE, bodies |-> <<>>]
         ELSE [returns |-> TRUE,
               bodies |-> [k \in (DOMAIN b \cup uploaded) \ deleted |->
                             IF k \in uploaded
                               THEN DataXformBody(data_xform_cmd, tree[file(k)].c)
                               ELSE b[k].body]]

\* do_sync is called
DoSync ==
    /\ pc \in Stopped
    /\ pc' = "open"
    /\ put_calls' = NoCalls
    /\ delete_calls' = NoCalls
    /\ sweep_cache' = {}
    /\ dry_run' \in BOOLEAN
    /\ repeat' = (pc = "done" /\ ~edited /\ ~dry_run)
    /\ restart' = (pc = "crashed" /\ ~edited /\ ~dry_run')
    /\ expected' = IF pc = "crashed" /\ ~edited
                      THEN expected
                      ELSE Uninterrupted(bucket,
                               IF has_cache THEN s3_cache ELSE FillCacheRows(bucket))
    /\ empty_start' = (bucket = <<>> /\ s3_cache = <<>>)
    /\ edited' = FALSE
    /\ runs < MaxRuns
    /\ runs' = runs + 1
    /\ skipped' = 0
    /\ UNCHANGED <<tree, now, bucket, has_cache, s3_cache, process, config, decision, grouping, vanishes, stages, edits,
                   uncommitted>>

\* S3File.upgrade_schema finds the table
UpgradeSchema ==
    /\ pc = "open"
    /\ has_cache
    /\ pc' = "seen"
    /\ UNCHANGED <<tree, now, bucket, has_cache, s3_cache, process, config, decision, grouping, pipeline, stages, dry_run, calls,
                   edited, history, crashes>>

\* upgrade_schema raises ValueError: S3File.fill_cache, one transaction
FillCache ==
    /\ pc = "open"
    /\ ~dry_run
    /\ ~has_cache
    /\ has_cache' = TRUE
    /\ s3_cache' = FillCacheRows(bucket)
    /\ pc' = "seen"
    /\ UNCHANGED <<tree, now, bucket, process, config, decision, grouping, pipeline, stages, dry_run, calls, edited, history, crashes>>

\* S3File.start_seen, and list_files starts walking
StartSeen ==
    /\ pc = "seen"
    /\ seen' = {}
    /\ todo' = DOMAIN tree
    /\ pc' = "scan"
    /\ UNCHANGED <<tree, now, bucket, has_cache, s3_cache, cur, sweep, config, decision, grouping, pipeline, stages, dry_run, calls,
                   edited, history, crashes>>

\* an exception leaves do_sync: the process ends, the temporary table with it
Raise ==
    /\ pc' = "failed"
    /\ seen' = {}
    /\ todo' = {}
    /\ cur' = NoCur
    /\ sweep' = {}

\* the item with the empty key is yielded as the others are
KeyTransformYield ==
    /\ pc = "scan"
    /\ \E f \in todo :
         /\ returncode(filename_xform_cmd, f) = 0
         /\ filename_xform(filename_xform_cmd, f) = ""
         /\ todo' = todo \ {f}
         /\ cur' = [file |-> f, key |-> "", size |-> 0]
    /\ pc' = "mark"
    /\ UNCHANGED <<tree, now, bucket, has_cache, s3_cache, seen, sweep, config, decision,
                   grouping, pipeline, stages, dry_run, calls, edited, history, crashes>>

\* KeyTransformCmdWrapper.__iter__ in front of the loop: the item whose key()
\* is the empty string is counted and not yielded
KeyTransformSkip ==
    /\ pc = "scan"
    /\ \E f \in todo :
         /\ returncode(filename_xform_cmd, f) = 0
         /\ filename_xform(filename_xform_cmd, f) = ""
         /\ todo' = todo \ {f}
    /\ skipped' = skipped + 1
    /\ UNCHANGED <<tree, now, bucket, has_cache, s3_cache, seen, cur, sweep, pc, config, decision,
                   grouping, vanishes, stages, dry_run, calls, edited, history, crashes>>

\* the exit code of the command is not looked at
ProcessFileRaisesUnchecked(f, key) ==
    \/ f \notin DOMAIN tree
    \/ Supersedes(tree[f], key, s3_cache) = "raise"

\* the loop body raises: the command exits non-zero (OSError), the file is
\* not there any more (FileNotFoundError from stat), supersedes raises
ProcessFileRaises(f, key) ==
    \/ returncode(filename_xform_cmd, f) # 0
    \/ f \notin DOMAIN tree
    \/ Supersedes(tree[f], key, s3_cache) = "raise"

\* the loop body up to the decision: filename_xform, supersedes; an item
\* the key transform stage did not yield does not get here
ProcessFile ==
    /\ pc = "scan"
    /\ \E f \in todo :
         LET key == filename_xform(filename_xform_cmd, f)
         IN /\ returncode(filename_xform_cmd, f) = 0 => key # ""
            /\ IF ProcessFileRaises(f, key)
                 THEN Raise
                 ELSE /\ todo' = todo \ {f}
                      /\ cur' = [file |-> f, key |-> key, size |-> 0]
                      /\ pc' = IF Supersedes(tree[f], key, s3_cache) = "upload"
                                  THEN "put" ELSE "mark"
                      /\ UNCHANGED <<seen, sweep>>
    /\ UNCHANGED <<tree, now, bucket, has_cache, s3_cache, config, decision, grouping, pipeline, stages, dry_run, calls, edited,
                   history, crashes>>

\* whatever upload_fileobj did, replace goes on to its cache write
ReplaceUploadAnyway ==
    /\ pc = "put"
    /\ ~dry_run
    /\ pc' = "cachew"
    /\ UNCHANGED <<tree, now, bucket, has_cache, s3_cache, process, config, decision, grouping,
                   pipeline, stages, dry_run, calls, edited, history, crashes>>

\* S3File.replace, first half: upload_fileobj reading from DataXform
ReplaceUpload ==
    /\ pc = "put"
    /\ ~dry_run
    /\ IF data_xform_cmd = "false"
         THEN Raise /\ UNCHANGED <<bucket, put_calls, now>>
         ELSE \E t \in now..MaxTime :
              LET c == tree[cur.file].c
                  n == DataXformSize(data_xform_cmd, c)
              IN /\ now' = t
                 /\ bucket' = Put(bucket, cur.key,
                        [body |-> DataXformBody(data_xform_cmd, c),
                         size |-> n,
                         lastModified |-> Seconds(t),
                         metadata |-> ("plaintext-size" :> Str(Size(c)))
                                      @@ ("plaintext-hash" :> LocalDigest(c))])
                 /\ cur' = [cur EXCEPT !.size = n]
                 /\ put_calls' = [put_calls EXCEPT ![cur.key] = @ + 1]
                 /\ pc' = "cachew"
                 /\ UNCHANGED <<seen, todo, sweep>>
    /\ UNCHANGED <<tree, has_cache, s3_cache, config, decision, grouping, pipeline, stages, dry_run, delete_calls, sweep_cache,
                   edited, history, crashes>>

\* S3File.replace, second half: INSERT OR REPLACE INTO s3_cache, committed
ReplaceCache ==
    /\ pc = "cachew"
    /\ \E t \in now..MaxTime :
         /\ now' = t
         /\ s3_cache' = Put(s3_cache, cur.key,
                [size |-> cur.size,
                 mtime |-> Seconds(t),
                 plaintext_size |-> Size(tree[cur.file].c),
                 plaintext_hash |-> LocalDigest(tree[cur.file].c)])
    /\ pc' = "mark"
    /\ uncommitted' = uncommitted \ {cur.key}
    /\ UNCHANGED <<tree, bucket, has_cache, process, config, decision, grouping, pipeline, stages, dry_run, calls, edited, history>>

\* nothing is inserted into seen
MarkAsSeenNothing ==
    /\ pc = "mark"
    /\ pc' = "scan"
    /\ cur' = NoCur
    /\ UNCHANGED <<tree, now, bucket, has_cache, s3_cache, seen, todo, sweep, config,
                   decision, grouping, pipeline, stages, dry_run, calls, edited, history, crashes>>

\* S3File.mark_as_seen: INSERT INTO seen, key is the primary key
MarkAsSeen ==
    /\ pc = "mark"
    /\ IF cur.key \in seen
         THEN Raise
         ELSE /\ pc' = "scan"
              /\ seen' = seen \cup {cur.key}
              /\ cur' = NoCur
              /\ UNCHANGED <<todo, sweep>>
    /\ UNCHANGED <<tree, now, bucket, has_cache, s3_cache, config, decision, grouping, pipeline, stages, dry_run, calls, edited,
                   history, crashes>>

\* every row is selected, seen or not
UnseenKeysAll(cache, flags) == DOMAIN cache

\* the rows S3File.delete_unseen selects
UnseenKeys(cache, flags) == DOMAIN cache \ flags

\* the query is run while list_files has files left
DeleteUnseenEarly ==
    /\ pc = "scan"
    /\ sweep' = UnseenKeys(s3_cache, seen)
    /\ sweep_cache' = DOMAIN s3_cache
    /\ pc' = "sweep"
    /\ UNCHANGED <<tree, now, bucket, has_cache, s3_cache, seen, todo, cur, config, decision,
                   grouping, pipeline, stages, dry_run, put_calls, delete_calls, edited, history,
                   crashes>>

\* S3File.delete_unseen runs its query
DeleteUnseen ==
    /\ pc = "scan"
    /\ todo = {}
    /\ sweep' = UnseenKeys(s3_cache, seen)
    /\ sweep_cache' = DOMAIN s3_cache
    /\ pc' = "sweep"
    /\ UNCHANGED <<tree, now, bucket, has_cache, s3_cache, seen, todo, cur, config, decision, grouping, pipeline, stages, dry_run,
                   put_calls, delete_calls, edited, history, crashes>>

\* delete_object is not called, the object stays
DeleteObjectKept ==
    /\ pc = "sweep"
    /\ ~dry_run
    /\ \E key \in sweep :
         /\ delete_calls' = [delete_calls EXCEPT ![key] = @ + 1]
         /\ cur' = [file |-> "", key |-> key, size |-> 0]
    /\ pc' = "sweepc"
    /\ UNCHANGED <<tree, now, bucket, has_cache, s3_cache, seen, todo, sweep, config,
                   decision, grouping, pipeline, stages, dry_run, put_calls, sweep_cache, edited, history, crashes>>

\* delete_unseen, per row: delete_object
DeleteObject ==
    /\ pc = "sweep"
    /\ ~dry_run
    /\ \E key \in sweep :
         /\ bucket' = Remove(bucket, key)
         /\ delete_calls' = [delete_calls EXCEPT ![key] = @ + 1]
         /\ cur' = [file |-> "", key |-> key, size |-> 0]
    /\ pc' = "sweepc"
    /\ UNCHANGED <<tree, now, has_cache, s3_cache, seen, todo, sweep, config, decision, grouping, pipeline, stages, dry_run,
                   put_calls, sweep_cache, edited, history, crashes>>

\* the row is not deleted
DeleteRowKept ==
    /\ pc = "sweepc"
    /\ sweep' = sweep \ {cur.key}
    /\ cur' = NoCur
    /\ pc' = "sweep"
    /\ uncommitted' = uncommitted \ {cur.key}
    /\ UNCHANGED <<tree, now, bucket, has_cache, s3_cache, seen, todo, config, decision, grouping, pipeline, stages,
                   dry_run, calls, edited, history>>

\* delete_unseen, per row: DELETE FROM s3_cache, committed
DeleteRow ==
    /\ pc = "sweepc"
    /\ s3_cache' = Remove(s3_cache, cur.key)
    /\ sweep' = sweep \ {cur.key}
    /\ cur' = NoCur
    /\ pc' = "sweep"
    /\ uncommitted' = uncommitted \ {cur.key}
    /\ UNCHANGED <<tree, now, bucket, has_cache, seen, todo, config, decision, grouping, pipeline, stages, dry_run, calls, edited,
                   history>>

\* the cursor is exhausted, do_sync logs the summary and returns
Summary ==
    /\ pc = "sweep"
    /\ sweep = {}
    /\ pc' = "done"
    /\ UNCHANGED <<tree, now, bucket, has_cache, s3_cache, process, config, decision, grouping, pipeline, stages, dry_run, calls,
                   edited, history, crashes>>

\* ------------------------------------------------------------- dry run
\* do_sync(dry_run=True): the decisions are made and the data is streamed, the
\* calls that change the bucket and the writes to the cache are left out

\* no cache is found: the run goes on without filling one
DryFillCache ==
    /\ pc = "open"
    /\ dry_run
    /\ ~has_cache
    /\ pc' = "seen"
    /\ UNCHANGED <<tree, now, bucket, has_cache, s3_cache, process, config, decision, grouping, pipeline, stages, dry_run,
                   calls, edited, history, crashes>>

\* the item is to be uploaded: its data is read through the transform and
\* counted, nothing is sent
DryUpload ==
    /\ pc = "put"
    /\ dry_run
    /\ IF data_xform_cmd = "false"
         THEN Raise
         ELSE /\ cur' = [cur EXCEPT !.size = DataXformSize(data_xform_cmd, tree[cur.file].c)]
              /\ pc' = "mark"
              /\ UNCHANGED <<seen, todo, sweep>>
    /\ UNCHANGED <<tree, now, bucket, has_cache, s3_cache, config, decision, grouping, pipeline, stages, dry_run, calls,
                   edited, history, crashes>>

\* the row of the unseen key is deleted
DryDeleteRow ==
    /\ pc = "sweep"
    /\ dry_run
    /\ \E key \in sweep :
         /\ sweep' = sweep \ {key}
         /\ s3_cache' = Remove(s3_cache, key)
    /\ UNCHANGED <<tree, now, bucket, has_cache, seen, todo, cur, pc, config, decision, grouping, pipeline, stages,
                   dry_run, calls, edited, history, crashes>>

\* the key is unseen: it is reported, neither the object nor the row is deleted
DryDelete ==
    /\ pc = "sweep"
    /\ dry_run
    /\ \E key \in sweep : sweep' = sweep \ {key}
    /\ UNCHANGED <<tree, now, bucket, has_cache, s3_cache, seen, todo, cur, pc, config, decision, grouping, pipeline, stages,
                   dry_run, calls, edited, history, crashes>>

\* ------------------------------------------------------- the environment
\* the process is killed between two operations
Crash ==
    /\ pc \notin Stopped
    /\ pc' = "crashed"
    /\ seen' = {}
    /\ todo' = {}
    /\ cur' = NoCur
    /\ sweep' = {}
    /\ uncommitted' = IF pc \in {"cachew", "sweepc"}
                         THEN uncommitted \cup {cur.key} ELSE uncommitted
    /\ UNCHANGED <<tree, now, bucket, has_cache, s3_cache, config, decision, grouping, pipeline, stages, dry_run, calls, edited,
                   history>>

\* a file is written or removed between two runs; the trees before the first
\* run are those of Init
WriteFile ==
    /\ pc \in Stopped \ {"idle"}
    /\ runs < MaxRuns
    /\ edits < MaxEdits
    /\ edits' = edits + 1
    /\ \E f \in Files, c \in Contents, t \in now..MaxTime :
         /\ now' = t
         /\ tree' = Put(tree, f, [c |-> c, mtime |-> t])
    /\ edited' = TRUE
    /\ UNCHANGED <<bucket, has_cache, s3_cache, pc, process, config, decision, grouping, pipeline, stages, dry_run, calls,
                   repeat, restart, expected, runs, empty_start, uncommitted>>

\* a file that list_files has found goes away before the loop gets to it
Vanish ==
    /\ pc = "scan"
    /\ vanishes < MaxVanish
    /\ vanishes' = vanishes + 1
    /\ \E f \in todo \cap DOMAIN tree : tree' = Remove(tree, f)
    /\ edited' = TRUE
    /\ UNCHANGED <<now, bucket, has_cache, s3_cache, pc, process, config, decision, grouping,
                   skipped, stages, dry_run, calls, history, crashes>>

RemoveFile ==
    /\ pc \in Stopped \ {"idle"}
    /\ runs < MaxRuns
    /\ edits < MaxEdits
    /\ edits' = edits + 1
    /\ \E f \in DOMAIN tree : tree' = Remove(tree, f)
    /\ edited' = TRUE
    /\ UNCHANGED <<now, bucket, has_cache, s3_cache, pc, process, config, decision, grouping, pipeline, stages, dry_run, calls,
                   repeat, restart, expected, runs, empty_start, uncommitted>>

Next ==
    \/ DoSync \/ UpgradeSchema \/ FillCache \/ StartSeen \/ ProcessFile
    \/ ReplaceUpload \/ ReplaceCache \/ MarkAsSeen
    \/ DeleteUnseen \/ DeleteObject \/ DeleteRow \/ Summary
    \/ DryFillCache \/ DryUpload \/ DryDelete
    \/ Crash \/ WriteFile \/ RemoveFile

Spec == Init /\ [][Next]_vars

\* the run with a key transform that drops or fails, a data transform that
\* fails, and files that go away while the tree is scanned
XformCommands == {<<"drop", "None">>, <<"failb", "None">>, <<"None", "false">>}
XformBuckets == {<<>>, ("a" :> OldObj) @@ ("b" :> OldObj)}

InitXform == Start(XformCommands, XformBuckets)

\* S3File.replace: upload_fileobj raises (the store refuses the Put), the
\* exception leaves replace before its cache write and leaves do_sync
UploadFails ==
    /\ pc = "put"
    /\ ~dry_run
    /\ Raise
    /\ UNCHANGED <<tree, now, bucket, has_cache, s3_cache, config, decision, grouping, pipeline,
                   stages, dry_run, calls, edited, history, crashes>>

NextXform == Next \/ KeyTransformSkip \/ Vanish \/ UploadFails

SpecXform == InitXform /\ [][NextXform]_vars

\* ------------------------------------------------- the upload decision
MaxMtime == 2
MaxWrap == 1
MaxGroup == 2

None == <<>>
Some(x) == <<x>>

\* the contents of a local file; "qq" and "rr" have the same size
FileContents == {"p", "qq", "rr"}

\* names of metadata fields are sequences of tokens, a prefix is a token
METADATA_PREFIX == "plaintext-"
Name(n) == <<n>>
Prefixed(md) == [n \in {<<METADATA_PREFIX>> \o k : k \in DOMAIN md} |-> md[Tail(n)]]

\* hashlib.new(algorithm) knows the algorithm
KnownAlgorithms == {"SHA256", "sha256", "MD5", "md5"}
\* str.upper()
Upper(a) == CASE a = "sha256" -> "SHA256" [] a = "md5" -> "MD5" [] OTHER -> a
\* hexdigest() of the content under the algorithm
HexDigest(algorithm, c) ==
    IF Upper(algorithm) = "SHA256"
      THEN (CASE c = "p" -> "5c" [] c = "qq" -> "9a" [] OTHER -> "e1")
      ELSE (CASE c = "p" -> "83" [] c = "qq" -> "b2" [] OTHER -> "f7")

\* LocalFile.digest: "{ALGORITHM}hexdigest", a string of tokens
digest(self, algorithm) == <<"{", Upper(algorithm), "}", HexDigest(algorithm, self.content)>>

\* re.match(r'^{([^}]+)}', h): the group, or None without a match
ReMatch(h) ==
    IF Len(h) >= 3 /\ h[1] = "{" /\ h[2] # "}" /\ h[3] = "}" THEN Some(h[2]) ELSE None

\* the size field is not read
s3_size_own(self, md) == Size(self.content)

\* a missing size field is read as the size of the file
s3_size_lenient(self, md) ==
    IF Name("size") \in DOMAIN md THEN ParseInt(md[Name("size")]) ELSE Size(self.content)

\* s3_size = int(metadata.get('size', -1))
s3_size(self, md) ==
    IF Name("size") \in DOMAIN md THEN ParseInt(md[Name("size")]) ELSE 0 - 1

\* the hash is compared whatever the mtimes are
CheckHashOnly(self, modification_time, md) ==
    IF Name("hash") \notin DOMAIN md THEN "KeyError"
    ELSE IF ReMatch(md[Name("hash")]) = None THEN "DoUpload"
    ELSE IF ReMatch(md[Name("hash")])[1] \notin KnownAlgorithms THEN "DoUpload"
    ELSE IF digest(self, ReMatch(md[Name("hash")])[1]) # md[Name("hash")] THEN "DoUpload"
    ELSE IF call.trust_mtime THEN "UpdateModificationTimeOnly"
    ELSE "DontUpload"

\* a hash that is the same never asks for the cached mtime to be bumped
CheckMtimeAndHashNoBump(self, modification_time, md) ==
    IF call.trust_mtime /\ self.st_mtime < modification_time[1] THEN "DontUpload"
    ELSE IF Name("hash") \notin DOMAIN md THEN "KeyError"
    ELSE IF ReMatch(md[Name("hash")]) = None THEN "DoUpload"
    ELSE IF ReMatch(md[Name("hash")])[1] \notin KnownAlgorithms THEN "DoUpload"
    ELSE IF digest(self, ReMatch(md[Name("hash")])[1]) # md[Name("hash")] THEN "DoUpload"
    ELSE "DontUpload"

\* the mtimes are compared whatever trust_mtime is
CheckMtimeAlways(self, modification_time, md) ==
    IF self.st_mtime < modification_time[1] THEN "DontUpload"
    ELSE IF Name("hash") \notin DOMAIN md THEN "KeyError"
    ELSE IF ReMatch(md[Name("hash")]) = None THEN "DoUpload"
    ELSE IF ReMatch(md[Name("hash")])[1] \notin KnownAlgorithms THEN "DoUpload"
    ELSE IF digest(self, ReMatch(md[Name("hash")])[1]) # md[Name("hash")] THEN "DoUpload"
    ELSE IF call.trust_mtime THEN "UpdateModificationTimeOnly"
    ELSE "DontUpload"

\* LocalFile.should_upload past the size: the mtime, then the hash
CheckMtimeAndHash(self, modification_time, md) ==
    IF call.trust_mtime /\ self.st_mtime < modification_time[1] THEN "DontUpload"
    ELSE IF Name("hash") \notin DOMAIN md THEN "KeyError"
    ELSE IF ReMatch(md[Name("hash")]) = None THEN "DoUpload"
    ELSE IF ReMatch(md[Name("hash")])[1] \notin KnownAlgorithms THEN "DoUpload"
    ELSE IF digest(self, ReMatch(md[Name("hash")])[1]) # md[Name("hash")] THEN "DoUpload"
    ELSE IF call.trust_mtime THEN "UpdateModificationTimeOnly"
    ELSE "DontUpload"

\* an object that is not on S3 is uploaded only if no metadata is given either
LocalFile_should_upload_md(self, modification_time, metadata) ==
    IF modification_time = None
      THEN (IF metadata = None THEN "DoUpload" ELSE "DontUpload")
    ELSE IF metadata = None THEN "AttributeError"
    ELSE IF Size(self.content) # s3_size(self, metadata[1]) THEN "DoUpload"
    ELSE CheckMtimeAndHash(self, modification_time, metadata[1])

\* LocalFile.should_upload
LocalFile_should_upload(self, modification_time, metadata) ==
    IF modification_time = None THEN "DoUpload"
    ELSE IF metadata = None THEN "AttributeError"
    ELSE IF Size(self.content) # s3_size(self, metadata[1]) THEN "DoUpload"
    ELSE CheckMtimeAndHash(self, modification_time, metadata[1])

\* GroupedItem.num_items, list_hash, content_hash, mtime; a sha256 is
\* identified with what was fed to it
num_items(self) == Len(self.underlying_list)
list_hash(self) ==
    <<"sha256", [i \in DOMAIN self.underlying_list |->
                   <<self.underlying_list[i].key, Str(self.underlying_list[i].size)>>]>>
content_hash(self) ==
    <<"sha256", [i \in DOMAIN self.underlying_list |->
                   <<self.underlying_list[i].key, self.underlying_list[i].hash>>]>>
mtime(self) ==
    CHOOSE m \in {self.underlying_list[i].mtime : i \in DOMAIN self.underlying_list} :
        \A i \in DOMAIN self.underlying_list : self.underlying_list[i].mtime <= m

\* GroupedItem.metadata
GroupedItem_metadata(self) ==
    (Name("num-items") :> Str(num_items(self)))
    @@ (Name("list-hash") :> list_hash(self))
    @@ (Name("content-hash") :> content_hash(self))

\* metadata.get(name, ''): '' is the empty string
Get(md, name) == IF name \in DOMAIN md THEN md[name] ELSE <<>>

\* GroupedItem.should_upload
GroupedItem_should_upload(self, modification_time, metadata) ==
    IF modification_time = None THEN "DoUpload"
    ELSE IF call.trust_mtime /\ mtime(self) <= modification_time[1]
      THEN "DontUpload"
    ELSE IF metadata = None THEN "AttributeError"
    ELSE LET md == metadata[1]
         IN IF Name("num-items") \notin DOMAIN md
                \/ Str(num_items(self)) # md[Name("num-items")] THEN "DoUpload"
            ELSE IF list_hash(self) # Get(md, Name("list-hash")) THEN "DoUpload"
            ELSE IF content_hash(self) # Get(md, Name("content-hash")) THEN "DoUpload"
            ELSE IF call.trust_mtime THEN "UpdateModificationTimeOnly"
            ELSE "DontUpload"

\* the fields are passed on as they are, prefix and all
underlying_metadata_all(md) == md

\* DataTransform.should_upload builds underlying_metadata: the fields whose
\* name starts with the prefix, the prefix cut off
underlying_metadata(md) ==
    [n \in {Tail(k) : k \in {j \in DOMAIN md : Head(j) = METADATA_PREFIX}} |->
        md[<<METADATA_PREFIX>> \o n]]

\* should_upload of an item: KeyTransformCmd, KeyTransformSub and SuffixedKey
\* pass the call to the item they wrap, DataTransform passes it with
\* underlying_metadata
RECURSIVE should_upload(_, _, _)
should_upload(item, modification_time, metadata) ==
    IF item.wrappers = <<>>
      THEN IF item.base.kind = "LocalFile"
             THEN LocalFile_should_upload(item.base, modification_time, metadata)
             ELSE GroupedItem_should_upload(item.base, modification_time, metadata)
      ELSE LET underlying == [item EXCEPT !.wrappers = Tail(@)]
           IN IF Head(item.wrappers) = "DataTransform"
                THEN IF modification_time = None
                       THEN should_upload(underlying, None, None)
                     ELSE IF metadata = None THEN "AttributeError"
                     ELSE should_upload(underlying, modification_time,
                                        Some(underlying_metadata(metadata[1])))
                ELSE should_upload(underlying, modification_time, metadata)

\* the algorithms LocalFile.should_upload calls self.digest with: the digest is
\* computed when the size is the same, the mtime does not settle it and
\* hashlib knows the algorithm of the stored hash
LocalFile_digest_calls(self, modification_time, metadata) ==
    IF modification_time = None \/ metadata = None THEN {}
    ELSE IF Size(self.content) # s3_size(self, metadata[1]) THEN {}
    ELSE IF call.trust_mtime /\ self.st_mtime < modification_time[1] THEN {}
    ELSE IF Name("hash") \notin DOMAIN metadata[1] THEN {}
    ELSE IF ReMatch(metadata[1][Name("hash")]) = None THEN {}
    ELSE IF ReMatch(metadata[1][Name("hash")])[1] \notin KnownAlgorithms THEN {}
    ELSE {ReMatch(metadata[1][Name("hash")])[1]}

\* the digests computed by should_upload of an item: the wrappers pass the
\* call on as should_upload does, a grouped item calls no LocalFile.digest
RECURSIVE digest_calls(_, _, _)
digest_calls(item, modification_time, metadata) ==
    IF item.wrappers = <<>>
      THEN IF item.base.kind = "LocalFile"
             THEN LocalFile_digest_calls(item.base, modification_time, metadata)
             ELSE {}
      ELSE LET underlying == [item EXCEPT !.wrappers = Tail(@)]
           IN IF Head(item.wrappers) = "DataTransform"
                THEN IF modification_time = None
                       THEN digest_calls(underlying, None, None)
                     ELSE IF metadata = None THEN {}
                     ELSE digest_calls(underlying, modification_time,
                                       Some(underlying_metadata(metadata[1])))
                ELSE digest_calls(underlying, modification_time, metadata)

\* the cache holds the mtime of the epoch in place of the mtime of the file
lru_cache_stale(self, modification_time, metadata, algorithms) ==
    IF self.kind # "LocalFile" THEN NoLru
    ELSE [stat |-> IF modification_time # None /\ metadata # None
                     THEN Some([st_size |-> Size(self.content), st_mtime |-> 0])
                     ELSE None,
          digest |-> [a \in algorithms |-> digest(self, a)]]

\* functools.lru_cache on LocalFile.stat and LocalFile.digest: what the call
\* left in the caches of the item; stat is called once modification_time is
\* not None and metadata.get has not raised, digest for the algorithms of
\* digest_calls
lru_cache(self, modification_time, metadata, algorithms) ==
    IF self.kind # "LocalFile" THEN NoLru
    ELSE [stat |-> IF modification_time # None /\ metadata # None
                     THEN Some([st_size |-> Size(self.content), st_mtime |-> self.st_mtime])
                     ELSE None,
          digest |-> [a \in algorithms |-> digest(self, a)]]

\* LocalFile.should_upload on an item whose stat and digest come from
\* lru_cache where the first call filled it
LocalFile_should_upload_again(self, modification_time, metadata) ==
    LET st == IF lru.stat # None THEN lru.stat[1]
              ELSE [st_size |-> Size(self.content), st_mtime |-> self.st_mtime]
        cached_digest(a) == IF a \in DOMAIN lru.digest THEN lru.digest[a] ELSE digest(self, a)
    IN IF modification_time = None THEN "DoUpload"
       ELSE IF metadata = None THEN "AttributeError"
       ELSE IF st.st_size # s3_size(self, metadata[1]) THEN "DoUpload"
       ELSE IF call.trust_mtime /\ st.st_mtime < modification_time[1] THEN "DontUpload"
       ELSE IF Name("hash") \notin DOMAIN metadata[1] THEN "KeyError"
       ELSE IF ReMatch(metadata[1][Name("hash")]) = None THEN "DoUpload"
       ELSE IF ReMatch(metadata[1][Name("hash")])[1] \notin KnownAlgorithms THEN "DoUpload"
       ELSE IF cached_digest(ReMatch(metadata[1][Name("hash")])[1]) # metadata[1][Name("hash")]
         THEN "DoUpload"
       ELSE IF call.trust_mtime THEN "UpdateModificationTimeOnly"
       ELSE "DontUpload"

\* the second call of should_upload of an item: the wrappers and the grouped
\* item keep nothing from the first call
RECURSIVE should_upload_again(_, _, _)
should_upload_again(item, modification_time, metadata) ==
    IF item.wrappers = <<>>
      THEN IF item.base.kind = "LocalFile"
             THEN LocalFile_should_upload_again(item.base, modification_time, metadata)
             ELSE GroupedItem_should_upload(item.base, modification_time, metadata)
      ELSE LET underlying == [item EXCEPT !.wrappers = Tail(@)]
           IN IF Head(item.wrappers) = "DataTransform"
                THEN IF modification_time = None
                       THEN should_upload_again(underlying, None, None)
                     ELSE IF metadata = None THEN "AttributeError"
                     ELSE should_upload_again(underlying, modification_time,
                                              Some(underlying_metadata(metadata[1])))
                ELSE should_upload_again(underlying, modification_time, metadata)

\* the items, times and metadata a call is made with
Wrappers == {"KeyTransformCmd", "KeyTransformSub", "SuffixedKey", "DataTransform"}
WrapperLists == UNION {[1..n -> Wrappers] : n \in 0..MaxWrap}
LocalFiles == [kind : {"LocalFile"}, content : FileContents, st_mtime : 0..MaxMtime]
Entries == {[key |-> "a", size |-> 1, hash |-> "h1", mtime |-> 0],
            [key |-> "a", size |-> 1, hash |-> "h1", mtime |-> MaxMtime],
            [key |-> "b", size |-> 2, hash |-> "h2", mtime |-> 0],
            [key |-> "b", size |-> 2, hash |-> "h3", mtime |-> 0]}
GroupedItems == [kind : {"GroupedItem"},
                 underlying_list : UNION {[1..n -> Entries] : n \in 1..MaxGroup}]
Items == [wrappers : WrapperLists, base : LocalFiles \cup GroupedItems]

\* values of the hash field: digests as the program stores them, one in lower
\* case, one of an unknown algorithm, one without the braces
HashValues == {digest([content |-> c], "SHA256") : c \in {"p", "qq"}}
              \cup {<<"{", "sha256", "}", HexDigest("sha256", "p")>>,
                    <<"{", "NOPE", "}", "5c">>,
                    <<"5c">>}
Without(md, n) == [k \in DOMAIN md \ {n} |-> md[k]]
LocalMetadata ==
    LET full == {(Name("size") :> sz) @@ (Name("hash") :> h) :
                    sz \in {Str(1), Str(2)}, h \in HashValues}
    IN full \cup {Without(md, Name("size")) : md \in full}
            \cup {Without(md, Name("hash")) : md \in full}
GroupedMetadata ==
    LET full == {GroupedItem_metadata(g) : g \in GroupedItems}
    IN full \cup {Without(md, Name("content-hash")) : md \in full}
Metadata == {None}
            \cup {Some(md) : md \in LocalMetadata \cup GroupedMetadata}
            \cup {Some(Prefixed(md)) : md \in LocalMetadata \cup GroupedMetadata}
Times == {None} \cup {Some(t) : t \in 0..MaxMtime}

\* trust_mtime is the setting the item reads: LocalFile.trust_mtime for a local
\* file, global_settings.trust_mtime for a grouped item
Calls == [item : Items, modification_time : Times, metadata : Metadata,
          trust_mtime : BOOLEAN]

InitDecide ==
    /\ tree = <<>>
    /\ now = InitTime
    /\ bucket = <<>>
    /\ has_cache = FALSE
    /\ s3_cache = <<>>
    /\ seen = {}
    /\ pc = "idle"
    /\ todo = {}
    /\ cur = NoCur
    /\ sweep = {}
    /\ filename_xform_cmd = "None"
    /\ data_xform_cmd = "None"
    /\ trust_mtime = TRUE
    /\ put_calls = NoCalls
    /\ delete_calls = NoCalls
    /\ edited = FALSE
    /\ repeat = FALSE
    /\ restart = FALSE
    /\ expected = [returns |-> FALSE, bodies |-> <<>>]
    /\ uncommitted = {}
    /\ empty_start = FALSE
    /\ runs = 0
    /\ edits = 0
    /\ sweep_cache = {}
    /\ dry_run = FALSE
    /\ call \in Calls
    /\ result = "pending"
    /\ digests = {}
    /\ lru = NoLru
    /\ again = "pending"
    /\ NoGrouping
    /\ NoPipeline
    /\ NoStages

\* item.should_upload(modification_time, metadata) is called and returns
ShouldUpload ==
    /\ result = "pending"
    /\ result' = should_upload(call.item, call.modification_time, call.metadata)
    /\ digests' = digest_calls(call.item, call.modification_time, call.metadata)
    /\ lru' = lru_cache(call.item.base, call.modification_time, call.metadata,
                        digest_calls(call.item, call.modification_time, call.metadata))
    /\ UNCHANGED <<tree, now, bucket, has_cache, s3_cache, pc, process, config,
                   dry_run, calls, edited, history, crashes, call, again, grouping, pipeline, stages>>

\* should_upload is called a second time on the same item with the same
\* arguments and settings; nothing has changed in between
ShouldUploadAgain ==
    /\ result # "pending"
    /\ again = "pending"
    /\ again' = should_upload_again(call.item, call.modification_time, call.metadata)
    /\ UNCHANGED <<tree, now, bucket, has_cache, s3_cache, pc, process, config,
                   dry_run, calls, edited, history, crashes, call, result, digests, lru,
                   grouping, pipeline, stages>>

NextDecide == ShouldUpload \/ ShouldUploadAgain

SpecDecide == InitDecide /\ [][NextDecide]_vars

\* ------------------------------------------------- grouping small files
MaxItems == 3
MaxThreshold == 3

\* a key is a sequence of characters; a dict is the sequence of its
\* [prefix, node] pairs in insertion order
Tree == [elements |-> <<>>, key_prefixes |-> <<>>]
IndexOf(dict, k) ==
    IF \E i \in DOMAIN dict : dict[i].prefix = k
      THEN CHOOSE i \in DOMAIN dict : dict[i].prefix = k
      ELSE 0
DictKeys(dict) == [i \in DOMAIN dict |-> dict[i].prefix]
\* every assignment adds a pair at the end
DictSetAppend(dict, k, v) == Append(dict, [prefix |-> k, node |-> v])

\* dict[k] = v: in place for a key the dict has, at the end for a new key
DictSet(dict, k, v) ==
    IF IndexOf(dict, k) # 0
      THEN [dict EXCEPT ![IndexOf(dict, k)] = [prefix |-> k, node |-> v]]
      ELSE Append(dict, [prefix |-> k, node |-> v])
\* del dict[k]
DictDel(dict, k) == SelectSeq(dict, LAMBDA e : e.prefix # k)

\* Tree.add_element
RECURSIVE add_element(_, _)
add_element(self, element) ==
    IF Len(element.key) <= 1
      THEN [self EXCEPT !.elements = Append(self.elements, element)]
      ELSE LET first_char == <<element.key[1]>>
               key_prefixes == IF IndexOf(self.key_prefixes, first_char) = 0
                                 THEN DictSet(self.key_prefixes, first_char, Tree)
                                 ELSE self.key_prefixes
               child == key_prefixes[IndexOf(key_prefixes, first_char)].node
               rest == [key |-> Tail(element.key), size |-> element.size,
                        item |-> element.item]
           IN [self EXCEPT !.key_prefixes =
                   DictSet(key_prefixes, first_char, add_element(child, rest))]

\* Tree.add_elements
RECURSIVE add_elements(_, _)
add_elements(self, elements) ==
    IF elements = <<>> THEN self
    ELSE add_elements(add_element(self, Head(elements)), Tail(elements))

\* Tree.elements_size
RECURSIVE SumSizes(_)
SumSizes(elements) ==
    IF elements = <<>> THEN 0 ELSE Head(elements).size + SumSizes(Tail(elements))
elements_size(self) == SumSizes(self.elements)

\* Tree.flatten: the loop runs over the keys the dict had when it started
RECURSIVE flatten(_)
RECURSIVE flatten_loop(_, _)
flatten(self) == flatten_loop(self, DictKeys(self.key_prefixes))
flatten_loop(self, keys) ==
    IF keys = <<>> THEN self
    ELSE LET key_prefix == Head(keys)
             node == flatten(self.key_prefixes[IndexOf(self.key_prefixes, key_prefix)].node)
             flattened == DictSet(self.key_prefixes, key_prefix, node)
             merged ==
                 IF Len(node.key_prefixes) = 1 /\ Len(node.elements) = 0
                   THEN DictDel(DictSet(flattened,
                                        key_prefix \o node.key_prefixes[1].prefix,
                                        node.key_prefixes[1].node),
                                key_prefix)
                   ELSE flattened
         IN flatten_loop([self EXCEPT !.key_prefixes = merged], Tail(keys))

\* the elements of a node are dropped on the way up
PulledUpNone(key_prefix, elements) == <<>>

\* the elements of a node are pulled up with the key they had in the node
PulledUpBare(key_prefix, elements) == elements

\* the elements of a node with the prefix of the node put back on their key
PulledUp(key_prefix, elements) ==
    [i \in DOMAIN elements |->
        [key |-> key_prefix \o elements[i].key, size |-> elements[i].size,
         item |-> elements[i].item]]

\* elements below min_size are left in the node
merge_min_size_keep(self, min_size) == self

\* Tree.merge_min_size
RECURSIVE merge_min_size(_, _)
RECURSIVE merge_min_size_loop(_, _, _)
merge_min_size(self, min_size) ==
    merge_min_size_loop(self, min_size, DictKeys(self.key_prefixes))
merge_min_size_loop(self, min_size, keys) ==
    IF keys = <<>> THEN self
    ELSE LET key_prefix == Head(keys)
             node == merge_min_size(
                         self.key_prefixes[IndexOf(self.key_prefixes, key_prefix)].node,
                         min_size)
             pull == Len(node.elements) # 0 /\ elements_size(node) < min_size
             elements == IF pull THEN self.elements \o PulledUp(key_prefix, node.elements)
                         ELSE self.elements
             emptied == IF pull THEN [node EXCEPT !.elements = <<>>] ELSE node
             key_prefixes ==
                 IF Len(emptied.elements) = 0 /\ Len(emptied.key_prefixes) = 0
                   THEN DictDel(self.key_prefixes, key_prefix)
                   ELSE DictSet(self.key_prefixes, key_prefix, emptied)
         IN merge_min_size_loop([elements |-> elements, key_prefixes |-> key_prefixes],
                                min_size, Tail(keys))

\* group_files.recurse_tree: the groups of the children first, then the group
\* of the node if it has elements
RECURSIVE recurse_tree(_, _)
RECURSIVE recurse_children(_, _)
recurse_children(dict, prefix) ==
    IF dict = <<>> THEN <<>>
    ELSE recurse_tree(Head(dict).node, prefix \o Head(dict).prefix)
         \o recurse_children(Tail(dict), prefix)
recurse_tree(node, prefix) ==
    recurse_children(node.key_prefixes, prefix)
    \o (IF Len(node.elements) > 0
          THEN <<[kind |-> "GroupedItem",
                  key |-> prefix,
                  underlying_list |-> [i \in DOMAIN node.elements |-> node.elements[i].item],
                  size |-> elements_size(node)]>>
          ELSE <<>>)

\* the elements group_files makes of the items
Elements(items) ==
    [i \in DOMAIN items |-> [key |-> items[i].key, size |-> items[i].size, item |-> items[i]]]

\* group_files
group_files(items, min_size) ==
    recurse_tree(flatten(merge_min_size(flatten(add_elements(Tree, Elements(items))),
                                        min_size)),
                 <<>>)

\* GroupSmallFilesWrapper.suffix, one character of a key
suffix == "*~.zip"
\* no key is taken to end with the suffix
EndsWithNothing(key, sfx) == FALSE

\* key.endswith(suffix)
EndsWith(key, sfx) == Len(key) > 0 /\ key[Len(key)] = sfx

\* the content of an item read from its fileobj
Read(item) == item.content

\* the year of datetime.fromtimestamp(mtime, utc); an mtime of the grouping
\* stage counts ten years from the epoch
Year(t) == 1970 + 10 * t

\* zipfile.ZipInfo(filename, date_time) refuses a year before 1980
ZipInfoRaises(date_time) == date_time[1] < 1980
\* the ZipInfo: the filename is kept up to a NUL character, which no key has
ZipInfo(filename, date_time) == [filename |-> filename, date_time |-> date_time]

\* every member is given the first year a zip can hold
fileobj_1980(self) ==
    [raised |-> "no",
     zip |-> [i \in DOMAIN self.underlying_list |->
                 [info |-> ZipInfo(self.underlying_list[i].key, <<1980>>),
                  data |-> Read(self.underlying_list[i])]]]

\* GroupedItem.fileobj: the zip, as the sequence of its entries, or the
\* exception of the first member ZipInfo refuses
fileobj(self) ==
    IF \E i \in DOMAIN self.underlying_list :
           ZipInfoRaises(<<Year(self.underlying_list[i].mtime)>>)
      THEN [raised |-> "ValueError", zip |-> <<>>]
      ELSE [raised |-> "no",
            zip |-> [i \in DOMAIN self.underlying_list |->
                        [info |-> ZipInfo(self.underlying_list[i].key,
                                          <<Year(self.underlying_list[i].mtime)>>),
                         data |-> Read(self.underlying_list[i])]]]

\* zipfile.ZipFile.read(name): the data of the last entry of that name
ZipRead(zip, name) ==
    zip[CHOOSE i \in DOMAIN zip :
            /\ zip[i].info.filename = name
            /\ \A j \in DOMAIN zip : zip[j].info.filename = name => j <= i].data

\* size() of an item that does not know its size: None
UnknownSize == 0 - 1

\* the items of a scan: key, size, content, hash of the content and mtime
PoolItem(key, content, known, t) ==
    [key |-> key, size |-> IF known THEN Size(content) ELSE UnknownSize, content |-> content,
     hash |-> HexDigest("SHA256", content), mtime |-> t]
Pool == {PoolItem(<<"a">>, "p", TRUE, 1),
         PoolItem(<<"b">>, "qq", TRUE, 2),
         PoolItem(<<"a", "a">>, "p", TRUE, 0),
         PoolItem(<<"a", "b">>, "qq", TRUE, 1),
         PoolItem(<<"b", "a", "a">>, "p", TRUE, 1),
         PoolItem(<<"b", "a", "b">>, "p", TRUE, 2),
         PoolItem(<<"c">>, "p", FALSE, 1),
         PoolItem(<<"d", suffix>>, "p", TRUE, 1)}
\* a scan yields each file once
Scans == UNION {{sc \in [1..n -> Pool] : \A i, j \in 1..n : sc[i] = sc[j] => i = j} :
                   n \in 0..MaxItems}
Orders(n) == {f \in [1..n -> 1..n] : \A i, j \in 1..n : f[i] = f[j] => i = j}

\* the loop of GroupSmallFilesWrapper.__iter__ over the underlying items
RECURSIVE iter_loop(_, _, _)
iter_loop(entries, threshold, acc) ==
    IF entries = <<>> THEN acc
    ELSE LET entry == Head(entries)
         IN IF EndsWith(entry.key, suffix)
              THEN [acc EXCEPT !.raised = "RuntimeError"]
            ELSE IF entry.size # UnknownSize /\ entry.size < threshold
              THEN iter_loop(Tail(entries), threshold,
                             [acc EXCEPT !.small_files = Append(@, entry)])
            ELSE IF entry.size = UnknownSize
              THEN [acc EXCEPT !.raised = "TypeError"]
            ELSE iter_loop(Tail(entries), threshold,
                           [acc EXCEPT !.passed = Append(@, entry)])

\* entry._key = entry._key + self.suffix, for each group in turn
Suffixed(gs) == [i \in DOMAIN gs |-> [gs[i] EXCEPT !.key = @ \o <<suffix>>]]

InitGroup ==
    /\ tree = <<>>
    /\ now = InitTime
    /\ bucket = <<>>
    /\ has_cache = FALSE
    /\ s3_cache = <<>>
    /\ seen = {}
    /\ pc = "idle"
    /\ todo = {}
    /\ cur = NoCur
    /\ sweep = {}
    /\ filename_xform_cmd = "None"
    /\ data_xform_cmd = "None"
    /\ trust_mtime = TRUE
    /\ put_calls = NoCalls
    /\ delete_calls = NoCalls
    /\ edited = FALSE
    /\ repeat = FALSE
    /\ restart = FALSE
    /\ expected = [returns |-> FALSE, bodies |-> <<>>]
    /\ uncommitted = {}
    /\ empty_start = FALSE
    /\ runs = 0
    /\ edits = 0
    /\ sweep_cache = {}
    /\ dry_run = FALSE
    /\ call = <<>>
    /\ result = "pending"
    /\ digests = {}
    /\ lru = NoLru
    /\ again = "pending"
    /\ NoPipeline
    /\ NoStages
    /\ underlying_it \in Scans
    /\ size_threshold \in 1..MaxThreshold
    /\ gpc = "start"
    /\ passed = <<>>
    /\ small_files = <<>>
    /\ group_tree = <<>>
    /\ groups = <<>>
    /\ regroups = <<>>
    /\ archive = <<>>

others == <<tree, now, bucket, has_cache, s3_cache, pc, process, config, dry_run, calls,
            edited, history, crashes, decision, pipeline, stages>>

\* GroupSmallFilesWrapper.__iter__, the first loop: the items at or above the
\* threshold are yielded, the others are kept; an item that does not know its
\* size stops the loop at large_files_bytes += size
Iter ==
    /\ gpc = "start"
    /\ LET done == iter_loop(underlying_it, size_threshold,
                             [passed |-> <<>>, small_files |-> <<>>, raised |-> "no"])
       IN /\ passed' = done.passed
          /\ small_files' = done.small_files
          /\ gpc' = IF done.raised = "no" THEN "kept" ELSE done.raised
    /\ UNCHANGED <<underlying_it, size_threshold, group_tree, groups, regroups, archive,
                   others>>

\* group_files: tree.add_elements
AddElements ==
    /\ gpc = "kept"
    /\ group_tree' = add_elements(Tree, Elements(small_files))
    /\ gpc' = "built"
    /\ UNCHANGED <<underlying_it, size_threshold, passed, small_files, groups, regroups,
                   archive, others>>

\* group_files: tree.flatten(), before and after merge_min_size
Flatten ==
    /\ gpc \in {"built", "merged"}
    /\ group_tree' = flatten(group_tree)
    /\ gpc' = IF gpc = "built" THEN "flat" ELSE "compact"
    /\ UNCHANGED <<underlying_it, size_threshold, passed, small_files, groups, regroups,
                   archive, others>>

\* group_files: tree.merge_min_size(min_size)
MergeMinSize ==
    /\ gpc = "flat"
    /\ group_tree' = merge_min_size(group_tree, size_threshold)
    /\ gpc' = "merged"
    /\ UNCHANGED <<underlying_it, size_threshold, passed, small_files, groups, regroups,
                   archive, others>>

\* group_files: recurse_tree, and the second loop of __iter__ that gives each
\* group the suffix and yields it
RecurseTree ==
    /\ gpc = "compact"
    /\ groups' = Suffixed(recurse_tree(group_tree, <<>>))
    /\ gpc' = "emitted"
    /\ UNCHANGED <<underlying_it, size_threshold, passed, small_files, group_tree,
                   regroups, archive, others>>

\* a later run scans the same items in another order and groups them
Rescan ==
    /\ gpc = "emitted"
    /\ regroups = <<>>
    /\ \E f \in Orders(Len(small_files)) :
           regroups' = <<Suffixed(group_files([i \in DOMAIN small_files |-> small_files[f[i]]],
                                              size_threshold))>>
    /\ UNCHANGED <<underlying_it, size_threshold, gpc, passed, small_files, group_tree,
                   groups, archive, others>>

\* the content of one of the groups is opened for upload
Fileobj ==
    /\ gpc = "emitted"
    /\ archive = <<>>
    /\ \E g \in DOMAIN groups :
           archive' = <<[group |-> g, raised |-> fileobj(groups[g]).raised,
                         zip |-> fileobj(groups[g]).zip]>>
    /\ UNCHANGED <<underlying_it, size_threshold, gpc, passed, small_files, group_tree,
                   groups, regroups, others>>

NextGroup ==
    \/ Iter
    \/ AddElements
    \/ Flatten
    \/ MergeMinSize
    \/ RecurseTree
    \/ Rescan
    \/ Fileobj

SpecGroup == InitGroup /\ [][NextGroup]_vars

\* ------------------------------------------------- the exclusion stage
MaxEntries == 3

\* do_sync has not been called and no item has been asked anything
NoRun ==
    /\ tree = <<>>
    /\ now = InitTime
    /\ bucket = <<>>
    /\ has_cache = FALSE
    /\ s3_cache = <<>>
    /\ seen = {}
    /\ pc = "idle"
    /\ todo = {}
    /\ cur = NoCur
    /\ sweep = {}
    /\ filename_xform_cmd = "None"
    /\ data_xform_cmd = "None"
    /\ trust_mtime = TRUE
    /\ put_calls = NoCalls
    /\ delete_calls = NoCalls
    /\ edited = FALSE
    /\ repeat = FALSE
    /\ restart = FALSE
    /\ expected = [returns |-> FALSE, bodies |-> <<>>]
    /\ uncommitted = {}
    /\ empty_start = FALSE
    /\ runs = 0
    /\ edits = 0
    /\ sweep_cache = {}
    /\ dry_run = FALSE
    /\ call = <<>>
    /\ result = "pending"
    /\ digests = {}
    /\ lru = NoLru
    /\ again = "pending"

\* a compiled regular expression is a sequence of tokens: a character or
\* the dot, starred or not; a key is a sequence of characters
Lit(c) == [c |-> c, star |-> FALSE]
Star(c) == [c |-> c, star |-> TRUE]
Fits(t, ch) == t.c = "." \/ t.c = ch

\* Pattern.match: the pattern matches at the start of the key
RECURSIVE re_match(_, _)
re_match(pattern, key) ==
    IF pattern = <<>> THEN TRUE
    ELSE IF Head(pattern).star
      THEN \/ re_match(Tail(pattern), key)
           \/ key # <<>> /\ Fits(Head(pattern), Head(key)) /\ re_match(pattern, Tail(key))
      ELSE key # <<>> /\ Fits(Head(pattern), Head(key)) /\ re_match(Tail(pattern), Tail(key))

\* Pattern.fullmatch: the pattern matches the key from its start to its end
RECURSIVE fullmatch(_, _)
fullmatch(pattern, key) ==
    IF pattern = <<>> THEN key = <<>>
    ELSE IF Head(pattern).star
      THEN \/ fullmatch(Tail(pattern), key)
           \/ key # <<>> /\ Fits(Head(pattern), Head(key)) /\ fullmatch(pattern, Tail(key))
      ELSE key # <<>> /\ Fits(Head(pattern), Head(key)) /\ fullmatch(Tail(pattern), Tail(key))

\* the keys and the patterns of the exclusion stage: foo, bar, f, bf, fb and
\* 'f.*', 'f', '.*', 'b.', 'o*'
ExcludeKeys == {<<"f", "o", "o">>, <<"b", "a", "r">>, <<"f">>, <<"b", "f">>, <<"f", "b">>}
Patterns == {<<Lit("f"), Star(".")>>, <<Lit("f")>>, <<Star(".")>>, <<Lit("b"), Lit(".")>>,
             <<Star("o")>>}

\* the items of a scan: the n-th object the scan made, with its key
ExcludeScans ==
    UNION {{[i \in 1..n |-> [key |-> ks[i], id |-> i]] : ks \in [1..n -> ExcludeKeys]}
           : n \in 0..MaxEntries}

InitExclude ==
    /\ NoRun
    /\ NoGrouping
    /\ NoPipeline
    /\ NoReading
    /\ NoCaching
    /\ NoPiping
    /\ excl_it \in ExcludeScans
    /\ exclude_re \in Patterns
    /\ epos = 0
    /\ yielded = <<>>
    /\ excluded_files = 0

\* ExcludeReWrapper.__iter__, one turn of the loop: the next entry is counted
\* if its key matches and yielded if not
ExcludeNext ==
    /\ epos < Len(excl_it)
    /\ epos' = epos + 1
    /\ IF fullmatch(exclude_re, excl_it[epos + 1].key)
         THEN /\ excluded_files' = excluded_files + 1
              /\ UNCHANGED yielded
         ELSE /\ yielded' = Append(yielded, excl_it[epos + 1])
              /\ UNCHANGED excluded_files
    /\ UNCHANGED <<excl_it, exclude_re, tree, now, bucket, has_cache, s3_cache, pc, process,
                   config, dry_run, calls, edited, history, crashes, decision, grouping,
                   pipeline, reading, caching, piping>>

NextExclude == ExcludeNext

SpecExclude == InitExclude /\ [][NextExclude]_vars

\* ------------------------------------------- reading through a transform
MaxOutput == 3
MaxReads == 3

\* the bytes the transform process writes before it exits
Outputs == {[i \in 1..n |-> i] : n \in 0..MaxOutput}
\* read(size): -1 reads up to the end
ReadSizes == {0 - 1, 1, 2}

\* self.output.read(size): the next size bytes, fewer at the end of the output
OutputRead(out, size) ==
    IF size < 0 \/ size >= Len(out) THEN out ELSE SubSeq(out, 1, size)
Rest(out, data) == SubSeq(out, Len(data) + 1, Len(out))

\* DataXformReadWrapper.read: the data, whatever the process did
DataXformReadWrapper_read(size) ==
    [data |-> OutputRead(output, size), raised |-> FALSE]

\* DataXform.read (s3_backup/__init__.py): the data, or OSError when nothing
\* was read and the process exited non-zero
DataXform_read(size) ==
    LET data == OutputRead(output, size)
    IN IF Len(data) = 0 /\ subprocess /\ return_code # 0
         THEN [data |-> <<>>, raised |-> TRUE]
         ELSE [data |-> data, raised |-> FALSE]

\* DataXformReadWrapper.close: OSError when the process exited non-zero
DataXformReadWrapper_close == IF subprocess /\ return_code # 0 THEN "OSError" ELSE "ok"

InitRead ==
    /\ NoRun
    /\ NoGrouping
    /\ NoPipeline
    /\ NoExcluding
    /\ NoCaching
    /\ NoPiping
    /\ reader \in {"DataXform", "DataXformReadWrapper"}
    /\ subprocess \in (IF reader = "DataXform" THEN BOOLEAN ELSE {TRUE})
    /\ return_code \in (IF subprocess THEN {0, 1} ELSE {0})
    /\ output \in Outputs
    /\ read_size = 0
    /\ reads = <<>>
    /\ closed = "pending"

\* upload_fileobj calls read(size) on the object it was given
ReadData ==
    /\ closed = "pending"
    /\ Len(reads) < MaxReads
    /\ \E size \in ReadSizes :
         LET data == OutputRead(output, size)
             r == IF reader = "DataXform" THEN DataXform_read(size)
                                         ELSE DataXformReadWrapper_read(size)
         IN /\ output' = Rest(output, data)
            /\ read_size' = read_size + Len(data)
            /\ reads' = Append(reads, r)
    /\ UNCHANGED <<reader, subprocess, return_code, closed, tree, now, bucket, has_cache,
                   s3_cache, pc, process, config, dry_run, calls, edited, history, crashes,
                   decision, grouping, pipeline, excluding, caching, piping>>

\* DataTransform.fileobj: the body of the with statement has ended, close()
Close ==
    /\ reader = "DataXformReadWrapper"
    /\ closed = "pending"
    /\ closed' = DataXformReadWrapper_close
    /\ UNCHANGED <<reader, subprocess, return_code, output, read_size, reads, tree, now,
                   bucket, has_cache, s3_cache, pc, process, config, dry_run, calls, edited,
                   history, crashes, decision, grouping, pipeline, excluding, caching, piping>>

NextRead == ReadData \/ Close

SpecRead == InitRead /\ [][NextRead]_vars

\* ------------------------------- the pump, the process and the consumer
\* the blobs of 4096 bytes the upstream content has at most
MaxData == 2
\* the blobs a pipe holds before a write to it blocks
PipeCapacity == 1
\* the blobs the process writes at most to its output and to its error stream
MaxOut == 2
MaxErr == 2

\* the calls the process can be in, and the last of them
Running == {"read", "write_stdout", "write_stderr", "exit"}
Exited == transform_process.op = "exited"

\* the call the process makes next: it reads on until the end of its input, it
\* writes while it has something to write, or it exits
NextCalls(p) ==
    {"exit"}
    \cup (IF p.eof THEN {} ELSE {"read"})
    \cup (IF p.out > 0 THEN {"write_stdout"} ELSE {})
    \cup (IF p.err > 0 THEN {"write_stderr"} ELSE {})

\* DataTransform.fileobj up to the yield: the wrapped item gives an in-memory
\* buffer (GroupedItem) or an open file (LocalFile), the process is started,
\* and so is the pump when the upstream is a buffer
InitPipe ==
    /\ NoRun
    /\ NoGrouping
    /\ NoPipeline
    /\ NoExcluding
    /\ NoReading
    /\ NoCaching
    /\ upstream \in {"BytesIO", "file"}
    /\ orig_fileobj \in 0..MaxData
    /\ f_orig = "open"
    /\ stdin_pump = IF upstream = "BytesIO" THEN "read" ELSE "none"
    /\ joined = FALSE
    /\ stdin_pipe = 0
    /\ stdin_open = (upstream = "BytesIO")
    /\ \E c \in Running :
          /\ transform_process = [op |-> c, eof |-> FALSE, out |-> MaxOut, err |-> MaxErr, code |-> 0]
    /\ stdout_pipe = 0
    /\ stderr_pipe = 0
    /\ waited = FALSE
    /\ consumer = "read"
    /\ fault \in BOOLEAN

outside == <<tree, now, bucket, has_cache, s3_cache, pc, process, config, dry_run, calls, edited,
            history, crashes, decision, grouping, pipeline, excluding, reading, caching>>

\* stdin_pump: blob = data.read(4096), and the test of its length
PumpRead ==
    /\ stdin_pump = "read"
    /\ IF orig_fileobj = 0
         THEN stdin_pump' = "close" /\ UNCHANGED orig_fileobj
         ELSE stdin_pump' = "write" /\ orig_fileobj' = orig_fileobj - 1
    /\ UNCHANGED <<upstream, f_orig, joined, stdin_pipe, stdin_open, transform_process,
                   stdout_pipe, stderr_pipe, waited, consumer, fault, outside>>

\* stdin_pump: fd.write(blob) waits while the pipe is full, and raises
\* BrokenPipeError, which ends the thread, when the process has exited
PumpWrite ==
    /\ stdin_pump = "write"
    /\ IF Exited
         THEN stdin_pump' = "BrokenPipeError" /\ UNCHANGED stdin_pipe
         ELSE /\ stdin_pipe < PipeCapacity
              /\ stdin_pipe' = stdin_pipe + 1
              /\ stdin_pump' = "read"
    /\ UNCHANGED <<upstream, orig_fileobj, f_orig, joined, stdin_open, transform_process,
                   stdout_pipe, stderr_pipe, waited, consumer, fault, outside>>

\* stdin_pump: fd.close(), break
PumpClose ==
    /\ stdin_pump = "close"
    /\ stdin_open' = FALSE
    /\ stdin_pump' = "ended"
    /\ UNCHANGED <<upstream, orig_fileobj, f_orig, joined, stdin_pipe, transform_process,
                   stdout_pipe, stderr_pipe, waited, consumer, fault, outside>>

\* the process goes on to another call
Proceed(p) ==
    \E c \in NextCalls(p) : transform_process' = [p EXCEPT !.op = c]

\* the process reads its standard input: the file itself, or the pipe, where
\* it waits while the pipe is empty and its write end open
ProcessRead ==
    /\ transform_process.op = "read"
    /\ IF upstream = "file"
         THEN /\ IF orig_fileobj > 0
                   THEN orig_fileobj' = orig_fileobj - 1 /\ Proceed(transform_process)
                   ELSE UNCHANGED orig_fileobj
                        /\ Proceed([transform_process EXCEPT !.eof = TRUE])
              /\ UNCHANGED stdin_pipe
         ELSE /\ stdin_pipe > 0 \/ ~stdin_open
              /\ IF stdin_pipe > 0
                   THEN stdin_pipe' = stdin_pipe - 1 /\ Proceed(transform_process)
                   ELSE UNCHANGED stdin_pipe
                        /\ Proceed([transform_process EXCEPT !.eof = TRUE])
              /\ UNCHANGED orig_fileobj
    /\ UNCHANGED <<upstream, f_orig, stdin_pump, joined, stdin_open, stdout_pipe, stderr_pipe,
                   waited, consumer, fault, outside>>

\* the process writes to its standard output, and waits while the pipe is full
ProcessWriteStdout ==
    /\ transform_process.op = "write_stdout"
    /\ stdout_pipe < PipeCapacity
    /\ stdout_pipe' = stdout_pipe + 1
    /\ Proceed([transform_process EXCEPT !.out = @ - 1])
    /\ UNCHANGED <<upstream, orig_fileobj, f_orig, stdin_pump, joined, stdin_pipe, stdin_open,
                   stderr_pipe, waited, consumer, fault, outside>>

\* the process writes to its standard error, and waits while the pipe is
\* full: stderr=subprocess.PIPE, and nothing reads it while the process runs
ProcessWriteStderr ==
    /\ transform_process.op = "write_stderr"
    /\ stderr_pipe < PipeCapacity
    /\ stderr_pipe' = stderr_pipe + 1
    /\ Proceed([transform_process EXCEPT !.err = @ - 1])
    /\ UNCHANGED <<upstream, orig_fileobj, f_orig, stdin_pump, joined, stdin_pipe, stdin_open,
                   stdout_pipe, waited, consumer, fault, outside>>

\* the process exits, with zero or not
ProcessExit ==
    /\ transform_process.op = "exit"
    /\ \E code \in {0, 1} :
          transform_process' = [transform_process EXCEPT !.op = "exited", !.code = code]
    /\ UNCHANGED <<upstream, orig_fileobj, f_orig, stdin_pump, joined, stdin_pipe, stdin_open,
                   stdout_pipe, stderr_pipe, waited, consumer, fault, outside>>

\* the with statement of the wrapped item's fileobj() is left: LocalFile
\* closes the file, GroupedItem has nothing to close
LeaveWith == f_orig' = IF upstream = "file" THEN "closed" ELSE f_orig

\* DataXformReadWrapper.read, called by the consumer until it returns nothing:
\* self.output.read waits while the pipe is empty and the process runs
ConsumerRead ==
    /\ consumer = "read"
    /\ stdout_pipe > 0 \/ Exited
    /\ IF stdout_pipe > 0
         THEN stdout_pipe' = stdout_pipe - 1 /\ UNCHANGED consumer
         ELSE consumer' = "wait" /\ UNCHANGED stdout_pipe
    /\ UNCHANGED <<upstream, orig_fileobj, f_orig, stdin_pump, joined, stdin_pipe, stdin_open,
                   transform_process, stderr_pipe, waited, fault, outside>>

\* the consumer raises between two reads: the exception goes through the
\* yield of DataTransform.fileobj, which has no try, and leaves both with
\* statements
ConsumerRaises ==
    /\ consumer = "read"
    /\ fault
    /\ consumer' = "raised"
    /\ LeaveWith
    /\ UNCHANGED <<upstream, orig_fileobj, stdin_pump, joined, stdin_pipe, stdin_open,
                   transform_process, stdout_pipe, stderr_pipe, waited, fault, outside>>

\* DataXformReadWrapper.close, first half: subprocess.wait(), and OSError with
\* what the process wrote to its standard error when it exited non-zero
CloseWait ==
    /\ consumer = "wait"
    /\ Exited
    /\ waited' = TRUE
    /\ IF transform_process.code # 0
         THEN consumer' = "OSError" /\ stderr_pipe' = 0 /\ LeaveWith
         ELSE /\ UNCHANGED stderr_pipe
              /\ IF stdin_pump # "none"
                   THEN consumer' = "join" /\ UNCHANGED f_orig
                   ELSE consumer' = "left" /\ LeaveWith
    /\ UNCHANGED <<upstream, orig_fileobj, stdin_pump, joined, stdin_pipe, stdin_open,
                   transform_process, stdout_pipe, fault, outside>>

\* DataXformReadWrapper.close, second half: stdin_pump.join() waits until the
\* thread has ended; then the with statement is left
CloseJoin ==
    /\ consumer = "join"
    /\ stdin_pump \in {"ended", "BrokenPipeError"}
    /\ joined' = TRUE
    /\ consumer' = "left"
    /\ LeaveWith
    /\ UNCHANGED <<upstream, orig_fileobj, stdin_pump, stdin_pipe, stdin_open,
                   transform_process, stdout_pipe, stderr_pipe, waited, fault, outside>>

Pump == PumpRead \/ PumpWrite \/ PumpClose
Process == ProcessRead \/ ProcessWriteStdout \/ ProcessWriteStderr \/ ProcessExit
Consumer == ConsumerRead \/ CloseWait \/ CloseJoin

NextPipe == Pump \/ Process \/ Consumer \/ ConsumerRaises

SpecPipe == InitPipe /\ [][NextPipe]_vars

\* three threads of control, each scheduled when it can run; nothing obliges
\* the consumer to raise
SpecPipeLive ==
    SpecPipe /\ WF_vars(Pump) /\ WF_vars(Process) /\ WF_vars(Consumer)

\* ------------------------------------------------ the cache (s3cache.py)
MaxOps == 3

CacheKeys == {"a", "b"}

\* the values given to cache[key] = value: size, modification time in ticks,
\* metadata
S3ObjectInfos ==
    {[s3_size |-> 1, s3_modification_time |-> 2, metadata |-> <<>>],
     [s3_size |-> 2, s3_modification_time |-> 3, metadata |-> "x" :> "1"],
     [s3_size |-> 1, s3_modification_time |-> 3, metadata |-> ("x" :> "2") @@ ("y" :> "1")],
     [s3_size |-> 2, s3_modification_time |-> 1, metadata |-> "y" :> "2"]}

\* an object with metadata this program does not write
OtherObj == [body |-> <<"None", "p">>, size |-> 2, lastModified |-> 1,
             metadata |-> ("plaintext-size" :> Str(1)) @@ ("plaintext-hash" :> LocalDigest("p"))
                          @@ ("other" :> "foobar")]
CacheBuckets == {<<>>, "b" :> ExtObj, ("a" :> OtherObj) @@ ("b" :> ExtObj),
                 ("a" :> OldObj) @@ ("b" :> OtherObj)}

\* the database file as an older version left it: nothing, or the table
\* s3_cache as S3File.fill_cache builds it
LegacyTables == {FillCacheRows(b) : b \in InitBuckets}

\* the tables of the database
Tables == [has_cache |-> has_cache, s3_cache |-> s3_cache, has_v2 |-> has_v2,
           s3_object_info |-> s3_object_info, s3_metadata |-> s3_metadata]

\* S3cache.__getitem__ on the tables info and md
getitem(info, md, key) ==
    IF key \notin DOMAIN info
      THEN [raised |-> "KeyError", s3_size |-> 0, s3_modification_time |-> 0,
            metadata |-> <<>>]
      ELSE [raised |-> "no", s3_size |-> info[key].size,
            s3_modification_time |-> info[key].mtime,
            metadata |-> [n \in {q[2] : q \in {r \in DOMAIN md : r[1] = key}} |->
                            md[<<key, n>>]]]

\* no row is deleted
delete_metadata_none(md, key) == md

\* DELETE FROM s3_metadata WHERE key = :key
delete_metadata(md, key) == [q \in {r \in DOMAIN md : r[1] # key} |-> md[q]]

\* INSERT INTO s3_metadata, one row per item; the primary key is (key, name)
insert_conflict(md, key, metadata) == \E n \in DOMAIN metadata : <<key, n>> \in DOMAIN md
insert_metadata(md, key, metadata) ==
    [q \in DOMAIN md \cup {<<key, n>> : n \in DOMAIN metadata} |->
        IF q[1] = key /\ q[2] \in DOMAIN metadata THEN metadata[q[2]] ELSE md[q]]

\* only the two fields this program writes are kept
object_metadata_plaintext(obj) ==
    [n \in DOMAIN obj.metadata \cap {"plaintext-size", "plaintext-hash"} |-> obj.metadata[n]]

\* initialize_cache: object_info.get('Metadata', {})
object_metadata(obj) == obj.metadata

\* no row is inserted into flag
flag_insert_none(flags, key) == flags

\* INSERT INTO flag
flag_insert(flags, key) == flags \cup {key}

\* S3cache.iterate_unflagged
iterate_unflagged(info, flags) == DOMAIN info \ flags

\* everything but the tables of the cache
rest == <<tree, now, bucket, pc, process, config, dry_run, calls, edited, history, crashes,
          decision, grouping, pipeline, excluding, reading, piping>>

\* the state SpecCache starts in: a bucket, and a database file that is new or
\* holds the table of the older version
InitCache ==
    /\ tree = <<>>
    /\ now = InitTime
    /\ bucket \in CacheBuckets
    /\ \E t \in LegacyTables :
          \/ has_cache = FALSE /\ s3_cache = <<>> /\ t = <<>>
          \/ has_cache = TRUE /\ s3_cache = t
    /\ seen = {}
    /\ pc = "idle"
    /\ todo = {}
    /\ cur = NoCur
    /\ sweep = {}
    /\ filename_xform_cmd = "None"
    /\ data_xform_cmd = "None"
    /\ trust_mtime = TRUE
    /\ put_calls = NoCalls
    /\ delete_calls = NoCalls
    /\ edited = FALSE
    /\ repeat = FALSE
    /\ restart = FALSE
    /\ expected = [returns |-> FALSE, bodies |-> <<>>]
    /\ uncommitted = {}
    /\ empty_start = FALSE
    /\ runs = 0
    /\ edits = 0
    /\ sweep_cache = {}
    /\ dry_run = FALSE
    /\ call = <<>>
    /\ result = "pending"
    /\ digests = {}
    /\ lru = NoLru
    /\ again = "pending"
    /\ NoGrouping
    /\ NoPipeline
    /\ NoExcluding
    /\ NoReading
    /\ NoCaching
    /\ NoPiping

\* the transaction is rolled back
Rollback ==
    /\ has_cache' = snapshot[1].has_cache
    /\ s3_cache' = snapshot[1].s3_cache
    /\ has_v2' = snapshot[1].has_v2
    /\ s3_object_info' = snapshot[1].s3_object_info
    /\ s3_metadata' = snapshot[1].s3_metadata
    /\ snapshot' = <<>>

\* S3cache(cache_db), _upgrade_schema: the tables are there, or the table of
\* the older version is and the upgrade begins (BEGIN, CREATE TABLE twice,
\* INSERT INTO s3_object_info SELECT), or ValueError
Open ==
    /\ cpc = "closed"
    /\ prev' = Tables
    /\ IF has_v2
         THEN /\ cpc' = "ready"
              /\ op' = [NoOp EXCEPT !.name = "open", !.outcome = "returned"]
              /\ UNCHANGED <<has_cache, s3_cache, has_v2, s3_object_info, s3_metadata,
                             snapshot>>
         ELSE IF has_cache
           THEN /\ snapshot' = <<Tables>>
                /\ has_v2' = TRUE
                /\ s3_object_info' = [k \in DOMAIN s3_cache |->
                                        [size |-> s3_cache[k].size, mtime |-> s3_cache[k].mtime]]
                /\ s3_metadata' = <<>>
                /\ cpc' = "upgrade_size"
                /\ op' = [NoOp EXCEPT !.name = "open", !.outcome = "running"]
                /\ UNCHANGED <<has_cache, s3_cache>>
           ELSE /\ cpc' = "closed"
                /\ op' = [NoOp EXCEPT !.name = "open", !.outcome = "ValueError"]
                /\ UNCHANGED <<has_cache, s3_cache, has_v2, s3_object_info, s3_metadata,
                               snapshot>>
    /\ UNCHANGED <<has_flag, flag, flagged, ops, rest>>

\* _upgrade_schema: INSERT INTO s3_metadata SELECT key, 'plaintext-size',
\* plaintext_size; value is NOT NULL
UpgradeSize ==
    /\ cpc = "upgrade_size"
    /\ IF \E k \in DOMAIN s3_cache : s3_cache[k].plaintext_size = NullInt
         THEN /\ Rollback
              /\ cpc' = "closed"
              /\ op' = [op EXCEPT !.outcome = "IntegrityError"]
         ELSE /\ s3_metadata' = [q \in {<<k, "plaintext-size">> : k \in DOMAIN s3_cache} |->
                                     Str(s3_cache[q[1]].plaintext_size)]
              /\ cpc' = "upgrade_hash"
              /\ UNCHANGED <<has_cache, s3_cache, has_v2, s3_object_info, snapshot, op>>
    /\ UNCHANGED <<has_flag, flag, flagged, ops, prev, rest>>

\* _upgrade_schema: INSERT INTO s3_metadata SELECT key, 'plaintext-hash',
\* plaintext_hash; value is NOT NULL
UpgradeHash ==
    /\ cpc = "upgrade_hash"
    /\ IF \E k \in DOMAIN s3_cache : s3_cache[k].plaintext_hash = NullText
         THEN /\ Rollback
              /\ cpc' = "closed"
              /\ op' = [op EXCEPT !.outcome = "IntegrityError"]
         ELSE /\ s3_metadata' = [q \in {<<k, "plaintext-hash">> : k \in DOMAIN s3_cache} |->
                                     s3_cache[q[1]].plaintext_hash] @@ s3_metadata
              /\ cpc' = "upgrade_drop"
              /\ UNCHANGED <<has_cache, s3_cache, has_v2, s3_object_info, snapshot, op>>
    /\ UNCHANGED <<has_flag, flag, flagged, ops, prev, rest>>

\* _upgrade_schema: DROP TABLE s3_cache, and the transaction is committed
UpgradeDrop ==
    /\ cpc = "upgrade_drop"
    /\ has_cache' = FALSE
    /\ s3_cache' = <<>>
    /\ snapshot' = <<>>
    /\ cpc' = "ready"
    /\ op' = [op EXCEPT !.outcome = "returned"]
    /\ UNCHANGED <<has_v2, s3_object_info, s3_metadata, has_flag, flag, flagged, ops, prev,
                   rest>>

\* S3cache.initialize_cache begins: BEGIN, DROP TABLE IF EXISTS twice, CREATE
\* TABLE twice, and the bucket is listed
InitializeCache ==
    /\ cpc = "closed"
    /\ prev' = Tables
    /\ snapshot' = <<Tables>>
    /\ has_v2' = TRUE
    /\ s3_object_info' = <<>>
    /\ s3_metadata' = <<>>
    /\ cpc' = "initialize"
    /\ op' = [NoOp EXCEPT !.name = "initialize_cache", !.outcome = "running",
                          !.todo = DOMAIN bucket]
    /\ UNCHANGED <<has_cache, s3_cache, has_flag, flag, flagged, ops, rest>>

\* initialize_cache, per listed object: head_object, a row in s3_object_info
\* and a row in s3_metadata for each item of its Metadata
InitializeObject ==
    /\ cpc = "initialize"
    /\ \E key \in op.todo :
          /\ s3_object_info' = Put(s3_object_info, key,
                                   [size |-> bucket[key].size,
                                    mtime |-> bucket[key].lastModified])
          /\ s3_metadata' = insert_metadata(s3_metadata, key, object_metadata(bucket[key]))
          /\ op' = [op EXCEPT !.todo = @ \ {key}]
    /\ UNCHANGED <<has_cache, s3_cache, has_v2, has_flag, flag, snapshot, cpc, prev, flagged,
                   ops, rest>>

\* initialize_cache: the listing is exhausted, the transaction is committed
\* and cls(cache_db) finds the tables
InitializeEnd ==
    /\ cpc = "initialize"
    /\ op.todo = {}
    /\ snapshot' = <<>>
    /\ cpc' = "ready"
    /\ op' = [op EXCEPT !.outcome = "returned"]
    /\ UNCHANGED <<has_cache, s3_cache, has_v2, s3_object_info, s3_metadata, has_flag, flag,
                   prev, flagged, ops, rest>>

\* cache[key] = value begins: INSERT OR REPLACE INTO s3_object_info
SetItem ==
    /\ cpc = "ready"
    /\ ops < MaxOps
    /\ ops' = ops + 1
    /\ prev' = Tables
    /\ snapshot' = <<Tables>>
    /\ \E key \in CacheKeys, value \in S3ObjectInfos :
          /\ s3_object_info' = Put(s3_object_info, key,
                                   [size |-> value.s3_size,
                                    mtime |-> Seconds(value.s3_modification_time)])
          /\ op' = [NoOp EXCEPT !.name = "setitem", !.key = key, !.value = value,
                                !.outcome = "running",
                                !.again = /\ op.name = "setitem"
                                          /\ op.outcome = "returned"
                                          /\ op.key = key
                                          /\ op.value = value]
    /\ cpc' = "setitem_delete"
    /\ UNCHANGED <<has_cache, s3_cache, has_v2, s3_metadata, has_flag, flag, flagged, rest>>

\* cache[key] = value: DELETE FROM s3_metadata
SetItemDelete ==
    /\ cpc = "setitem_delete"
    /\ s3_metadata' = delete_metadata(s3_metadata, op.key)
    /\ cpc' = "setitem_insert"
    /\ UNCHANGED <<has_cache, s3_cache, has_v2, s3_object_info, has_flag, flag, snapshot, op,
                   prev, flagged, ops, rest>>

\* cache[key] = value: INSERT INTO s3_metadata for each item, and the
\* transaction is committed; a row that is already there is an IntegrityError
SetItemInsert ==
    /\ cpc = "setitem_insert"
    /\ IF insert_conflict(s3_metadata, op.key, op.value.metadata)
         THEN /\ Rollback
              /\ op' = [op EXCEPT !.outcome = "IntegrityError"]
         ELSE /\ s3_metadata' = insert_metadata(s3_metadata, op.key, op.value.metadata)
              /\ snapshot' = <<>>
              /\ op' = [op EXCEPT !.outcome = "returned"]
              /\ UNCHANGED <<has_cache, s3_cache, has_v2, s3_object_info>>
    /\ cpc' = "ready"
    /\ UNCHANGED <<has_flag, flag, prev, flagged, ops, rest>>

\* del cache[key]: both DELETEs in one transaction
DelItem ==
    /\ cpc = "ready"
    /\ ops < MaxOps
    /\ ops' = ops + 1
    /\ prev' = Tables
    /\ \E key \in CacheKeys :
          /\ s3_object_info' = IF key \in DOMAIN s3_object_info
                                  THEN Remove(s3_object_info, key) ELSE s3_object_info
          /\ s3_metadata' = delete_metadata(s3_metadata, key)
          /\ op' = [NoOp EXCEPT !.name = "delitem", !.key = key, !.outcome = "returned"]
    /\ UNCHANGED <<has_cache, s3_cache, has_v2, has_flag, flag, snapshot, cpc, flagged, rest>>

\* S3cache.clear_flags
ClearFlags ==
    /\ cpc = "ready"
    /\ ops < MaxOps
    /\ ops' = ops + 1
    /\ prev' = Tables
    /\ has_flag' = TRUE
    /\ flag' = {}
    /\ flagged' = {}
    /\ op' = [NoOp EXCEPT !.name = "clear_flags", !.outcome = "returned"]
    /\ UNCHANGED <<has_cache, s3_cache, has_v2, s3_object_info, s3_metadata, snapshot, cpc,
                   rest>>

\* S3cache.flag(key): the table may not be there (OperationalError), the key
\* may be in it already (IntegrityError)
Flag ==
    /\ cpc = "ready"
    /\ ops < MaxOps
    /\ ops' = ops + 1
    /\ prev' = Tables
    /\ \E key \in CacheKeys :
          IF ~has_flag
            THEN /\ op' = [NoOp EXCEPT !.name = "flag", !.key = key,
                                       !.outcome = "OperationalError"]
                 /\ UNCHANGED <<flag, flagged>>
            ELSE IF key \in flag
              THEN /\ op' = [NoOp EXCEPT !.name = "flag", !.key = key,
                                         !.outcome = "IntegrityError"]
                   /\ UNCHANGED <<flag, flagged>>
              ELSE /\ flag' = flag_insert(flag, key)
                   /\ flagged' = flagged \cup {key}
                   /\ op' = [NoOp EXCEPT !.name = "flag", !.key = key, !.outcome = "returned"]
    /\ UNCHANGED <<has_cache, s3_cache, has_v2, s3_object_info, s3_metadata, has_flag, snapshot,
                   cpc, rest>>

\* the process is killed: the open transaction is rolled back when the file
\* is opened again, the temporary table is gone with the connection
CrashCache ==
    /\ cpc # "closed"
    /\ ops < MaxOps
    /\ ops' = ops + 1
    /\ IF snapshot # <<>>
         THEN Rollback
         ELSE UNCHANGED <<has_cache, s3_cache, has_v2, s3_object_info, s3_metadata, snapshot>>
    /\ has_flag' = FALSE
    /\ flag' = {}
    /\ flagged' = {}
    /\ cpc' = "closed"
    /\ op' = IF snapshot # <<>> THEN [op EXCEPT !.outcome = "crashed"] ELSE op
    /\ UNCHANGED <<prev, rest>>

NextCache ==
    \/ Open \/ UpgradeSize \/ UpgradeHash \/ UpgradeDrop
    \/ InitializeCache \/ InitializeObject \/ InitializeEnd
    \/ SetItem \/ SetItemDelete \/ SetItemInsert \/ DelItem
    \/ ClearFlags \/ Flag \/ CrashCache

SpecCache == InitCache /\ [][NextCache]_vars

\* ------------------------------------------------- the wrappers of an item
\* what a method the class does not define comes to: BackupItem.size and
\* BackupItem.mtime return None, BackupItem.metadata returns {}, and
\* BackupItem.hash raises NotImplementedError
BackupItem_size == None
BackupItem_metadata == <<>>
BackupItem_hash == "NotImplementedError"
BackupItem_mtime == None

\* LocalFile.metadata
LocalFile_metadata(self) ==
    (Name("size") :> Str(Size(self.content))) @@ (Name("hash") :> digest(self, "SHA256"))

\* the item a wrapper holds in underlying
Underlying(item) == [item EXCEPT !.wrappers = Tail(@)]

\* the classes of key_transform.py and add_key_suffix.py
KeyWrappers == {"KeyTransformCmd", "KeyTransformSub", "SuffixedKey"}

\* item.size(): LocalFile returns st_size; GroupedItem holds its size in the
\* attribute size, which is not callable; KeyTransformCmd and KeyTransformSub
\* pass the call on; SuffixedKey and DataTransform do not define it
RECURSIVE item_size(_)
item_size(item) ==
    IF item.wrappers = <<>>
      THEN IF item.base.kind = "LocalFile" THEN Some(Size(item.base.content)) ELSE "TypeError"
    ELSE IF Head(item.wrappers) \in {"KeyTransformCmd", "KeyTransformSub"}
      THEN item_size(Underlying(item))
    ELSE BackupItem_size

\* item.metadata(): SuffixedKey does not define it
RECURSIVE item_metadata(_)
item_metadata(item) ==
    IF item.wrappers = <<>>
      THEN IF item.base.kind = "LocalFile" THEN LocalFile_metadata(item.base)
           ELSE GroupedItem_metadata(item.base)
    ELSE IF Head(item.wrappers) \in {"KeyTransformCmd", "KeyTransformSub"}
      THEN item_metadata(Underlying(item))
    ELSE IF Head(item.wrappers) = "DataTransform"
      THEN Prefixed(item_metadata(Underlying(item)))
    ELSE BackupItem_metadata

\* item.hash(): GroupedItem and DataTransform define it
RECURSIVE item_hash(_)
item_hash(item) ==
    IF item.wrappers = <<>>
      THEN IF item.base.kind = "GroupedItem" THEN content_hash(item.base) ELSE BackupItem_hash
    ELSE IF Head(item.wrappers) = "DataTransform" THEN item_hash(Underlying(item))
    ELSE BackupItem_hash

\* item.mtime(): GroupedItem and DataTransform define it
RECURSIVE item_mtime(_)
item_mtime(item) ==
    IF item.wrappers = <<>>
      THEN IF item.base.kind = "GroupedItem" THEN Some(mtime(item.base)) ELSE BackupItem_mtime
    ELSE IF Head(item.wrappers) = "DataTransform" THEN item_mtime(Underlying(item))
    ELSE BackupItem_mtime

\* item.fileobj(): the stream of the base item, read through the command of
\* each DataTransform around it; the other wrappers pass the call on
RECURSIVE item_fileobj(_)
item_fileobj(item) ==
    IF item.wrappers = <<>> THEN <<item.base>>
    ELSE IF Head(item.wrappers) = "DataTransform"
      THEN <<"xform">> \o item_fileobj(Underlying(item))
    ELSE item_fileobj(Underlying(item))

\* the call item.method(...)
Invoke(c) ==
    CASE c.method = "size" -> item_size(c.item)
      [] c.method = "metadata" -> item_metadata(c.item)
      [] c.method = "hash" -> item_hash(c.item)
      [] c.method = "mtime" -> item_mtime(c.item)
      [] c.method = "fileobj" -> item_fileobj(c.item)
      [] OTHER -> should_upload(c.item, c.modification_time, c.metadata)

\* fields of someone else, and fields under the names of the wrapped item,
\* without the prefix
Extras == {<<>>,
           Name("other") :> "1",
           (Name("size") :> Str(3)) @@ (Name("hash") :> <<"5c">>)}

\* the metadata an item is asked about: none, what the item itself gives,
\* that with other fields next to it, and what the item it wraps gives
MetadataOf(item) ==
    {None}
    \cup {Some(x @@ item_metadata(item)) : x \in Extras}
    \cup (IF item.wrappers = <<>> THEN {} ELSE {Some(item_metadata(Underlying(item)))})

Methods == {"size", "metadata", "hash", "mtime", "fileobj"}

\* an item with at least one wrapper, and one call of one of its methods
InitWrap ==
    /\ tree = <<>>
    /\ now = InitTime
    /\ bucket = <<>>
    /\ has_cache = FALSE
    /\ s3_cache = <<>>
    /\ seen = {}
    /\ pc = "idle"
    /\ todo = {}
    /\ cur = NoCur
    /\ sweep = {}
    /\ filename_xform_cmd = "None"
    /\ data_xform_cmd = "None"
    /\ trust_mtime = TRUE
    /\ put_calls = NoCalls
    /\ delete_calls = NoCalls
    /\ edited = FALSE
    /\ repeat = FALSE
    /\ restart = FALSE
    /\ expected = [returns |-> FALSE, bodies |-> <<>>]
    /\ uncommitted = {}
    /\ empty_start = FALSE
    /\ runs = 0
    /\ edits = 0
    /\ sweep_cache = {}
    /\ dry_run = FALSE
    /\ \E item \in {i \in Items : i.wrappers # <<>>} :
          \/ \E m \in Methods :
                call = [item |-> item, method |-> m, modification_time |-> None,
                        metadata |-> None, trust_mtime |-> TRUE]
          \/ \E t \in Times, md \in MetadataOf(item), tm \in BOOLEAN :
                call = [item |-> item, method |-> "should_upload", modification_time |-> t,
                        metadata |-> md, trust_mtime |-> tm]
    /\ result = "pending"
    /\ digests = {}
    /\ lru = NoLru
    /\ again = "pending"
    /\ NoGrouping
    /\ NoPipeline
    /\ NoStages

\* the method is called on the wrapper and returns
CallWrapper ==
    /\ result = "pending"
    /\ result' = <<Invoke(call)>>
    /\ UNCHANGED <<tree, now, bucket, has_cache, s3_cache, pc, process, config,
                   dry_run, calls, edited, history, crashes, call, digests, lru, again,
                   grouping, pipeline, stages>>

NextWrap == CallWrapper

SpecWrap == InitWrap /\ [][NextWrap]_vars

\* ---------------------------------------------------------------- claims
\* do_sync, not a dry run, has returned and nothing has changed since
Done == pc = "done" /\ ~edited /\ ~dry_run

KeysOf(t) == {filename_xform(filename_xform_cmd, f) : f \in DOMAIN t}
Bodies(b) == [k \in DOMAIN b |-> b[k].body]
PutCalls == {k \in Keys : put_calls[k] > 0}
DeleteCalls == {k \in Keys : delete_calls[k] > 0}

\* a cache row records the size and the metadata of the object in the bucket
RowMatches(row, obj) ==
    [row EXCEPT !.mtime = 0] = [UpdateCacheRow(obj) EXCEPT !.mtime = 0]

\* C1: a run that follows a completed run, with no change to the tree, the
\* bucket or the cache between the two, calls neither upload_fileobj nor
\* delete_object
C1_Idempotence == repeat => PutCalls = {} /\ DeleteCalls = {}

\* C2: when a run completes, delete_object was called exactly once for each
\* key that was in s3_cache when delete_unseen ran and is not in seen, its
\* row is gone, and it was called for no other key
C2_OrphanSweep ==
    Done =>
        \A k \in Keys :
            IF k \in sweep_cache \ seen
              THEN delete_calls[k] = 1 /\ k \notin DOMAIN s3_cache
              ELSE delete_calls[k] = 0

C2_Witness ==
    /\ Done
    /\ seen # {}
    /\ \E k \in sweep_cache \ seen : delete_calls[k] = 1

\* C3: a run that crashed and was started again over the same tree leaves,
\* when it completes, the keys and bodies in the bucket that a run without the
\* crash would have left, and every local file has its object
C3_CrashRestart ==
    (Done /\ restart /\ expected.returns) =>
        /\ Bodies(bucket) = expected.bodies
        /\ KeysOf(tree) \subseteq DOMAIN bucket

C3_Witness ==
    /\ Done
    /\ restart
    /\ expected.returns
    /\ PutCalls # {}
    /\ DeleteCalls # {}

\* C4 as stated: wherever a run stops, every row of s3_cache names a key that
\* is in the bucket and records the size and metadata of that object
C4_Original ==
    pc \in Stopped =>
        \A k \in DOMAIN s3_cache :
            k \in DOMAIN bucket /\ RowMatches(s3_cache[k], bucket[k])

\* C4 amended: wherever a run stops, every row of s3_cache names a key that is
\* in the bucket and records the size and metadata of that object, except the
\* row of a key whose upload_fileobj or delete_object call a crash cut off from
\* the cache write that follows it; a run that completes, not a dry run,
\* leaves no exception
C4_CacheConsistent ==
    pc \in Stopped =>
        \A k \in DOMAIN s3_cache \ (IF pc = "done" /\ ~dry_run THEN {} ELSE uncommitted) :
            k \in DOMAIN bucket /\ RowMatches(s3_cache[k], bucket[k])

C4_Witness ==
    /\ pc = "crashed"
    /\ \E k \in uncommitted \cap DOMAIN s3_cache : k \notin DOMAIN bucket
    /\ \E k \in DOMAIN s3_cache \ uncommitted : s3_cache[k].size = 2

\* C5: when a run completes the cache is the cache fill_cache would build
\* from the bucket: the same keys and, per key, the same size, mtime (whole
\* seconds) and metadata values
C5_CacheEqualsRebuild == Done => s3_cache = FillCacheRows(bucket)

\* C6: a run that started with an empty bucket and an empty cache leaves, when
\* it completes, exactly one object per key the files were given and exactly
\* one row per object
C6_Mirror ==
    (Done /\ empty_start) =>
        /\ DOMAIN bucket = KeysOf(tree)
        /\ DOMAIN s3_cache = DOMAIN bucket
        /\ \A k \in Keys : put_calls[k] = (IF k \in KeysOf(tree) THEN 1 ELSE 0)

C6_Witness ==
    /\ Done
    /\ empty_start
    /\ Cardinality(DOMAIN bucket) = 2
    /\ Cardinality(DOMAIN s3_cache) = 2

\* C7: a dry run calls neither upload_fileobj nor delete_object, and no step
\* of it changes the bucket, the rows of s3_cache or creates the table,
\* whatever was decided for the files and the unseen keys
C7_DryRun ==
    /\ [](dry_run => PutCalls = {} /\ DeleteCalls = {})
    /\ [][(dry_run /\ pc \notin Stopped) =>
            /\ bucket' = bucket
            /\ s3_cache' = s3_cache
            /\ has_cache' = has_cache]_vars

\* a dry run that completed over a bucket and a cache with rows, in which a
\* file was to be uploaded and a key was to be deleted
C7_Witness ==
    /\ dry_run
    /\ pc = "done"
    /\ \E k \in seen : k \notin DOMAIN s3_cache
    /\ \E k \in sweep_cache \ seen : k \in DOMAIN bucket /\ k \in DOMAIN s3_cache

\* C8: should_upload called with modification_time None returns DoUpload, for
\* a local file, a grouped item and each of them under any wrappers, whatever
\* the metadata and both trust_mtime settings
C8_AbsentIsDoUpload ==
    (result # "pending" /\ call.modification_time = None) => result = "DoUpload"

C8_Witness ==
    /\ result = "DoUpload"
    /\ call.modification_time = None
    /\ call.metadata # None
    /\ call.item.wrappers # <<>>
    /\ Head(call.item.wrappers) = "DataTransform"
    /\ call.item.base.kind = "GroupedItem"
    /\ call.trust_mtime

IsLocalFile == call.item.wrappers = <<>> /\ call.item.base.kind = "LocalFile"
HasSize == call.metadata # None /\ Name("size") \in DOMAIN call.metadata[1]

\* C9: for a local file with modification_time given and metadata whose size
\* field differs from the size of the file, should_upload returns DoUpload,
\* whatever the mtimes, the hash field and trust_mtime
C9_SizeDiffers ==
    (/\ result # "pending"
     /\ IsLocalFile
     /\ call.modification_time # None
     /\ HasSize
     /\ call.metadata[1][Name("size")] # Str(Size(call.item.base.content)))
        => result = "DoUpload"

C9_Witness ==
    /\ result = "DoUpload"
    /\ IsLocalFile
    /\ call.modification_time # None
    /\ HasSize
    /\ call.metadata[1][Name("size")] # Str(Size(call.item.base.content))
    /\ call.trust_mtime
    /\ call.item.base.st_mtime < call.modification_time[1]
    /\ Name("hash") \in DOMAIN call.metadata[1]
    /\ call.metadata[1][Name("hash")] = digest(call.item.base, "SHA256")

\* C10 as stated: for a local file with modification_time given and metadata
\* without a size field the size does not decide; with trust_mtime off and a
\* hash field equal to the digest of the file the outcome is DontUpload
C10_Original ==
    (/\ result # "pending"
     /\ IsLocalFile
     /\ call.modification_time # None
     /\ call.metadata # None
     /\ ~HasSize
     /\ ~call.trust_mtime
     /\ Name("hash") \in DOMAIN call.metadata[1]
     /\ call.metadata[1][Name("hash")] = digest(call.item.base, "SHA256"))
        => result = "DontUpload"

\* C10 amended: for a local file with modification_time given and metadata
\* without a size field, should_upload returns DoUpload: the missing size is
\* read as -1, which no file size equals
C10_NoSizeIsDoUpload ==
    (/\ result # "pending"
     /\ IsLocalFile
     /\ call.modification_time # None
     /\ call.metadata # None
     /\ ~HasSize)
        => result = "DoUpload"

C10_Witness ==
    /\ result = "DoUpload"
    /\ IsLocalFile
    /\ call.modification_time # None
    /\ call.metadata # None
    /\ ~HasSize
    /\ ~call.trust_mtime
    /\ Name("hash") \in DOMAIN call.metadata[1]
    /\ call.metadata[1][Name("hash")] = digest(call.item.base, "SHA256")

SizeMatches ==
    HasSize /\ call.metadata[1][Name("size")] = Str(Size(call.item.base.content))
HasHash == call.metadata # None /\ Name("hash") \in DOMAIN call.metadata[1]
\* the stored hash is the digest of the file under an algorithm, as
\* LocalFile.digest writes it
HashMatches ==
    HasHash /\ call.metadata[1][Name("hash")]
                  \in {digest(call.item.base, a) : a \in KnownAlgorithms}

\* C11: for a local file with trust_mtime on, a size field equal to the size
\* of the file and st_mtime strictly below modification_time, should_upload
\* returns DontUpload whatever the hash field holds, also without one, and no
\* digest of the file is computed
C11_OlderIsDontUpload ==
    (/\ result # "pending"
     /\ IsLocalFile
     /\ call.trust_mtime
     /\ call.modification_time # None
     /\ SizeMatches
     /\ call.item.base.st_mtime < call.modification_time[1])
        => result = "DontUpload" /\ digests = {}

\* the stored hash is well formed and is not the hash of the file
C11_Witness ==
    /\ result = "DontUpload"
    /\ IsLocalFile
    /\ call.trust_mtime
    /\ call.modification_time # None
    /\ SizeMatches
    /\ call.item.base.st_mtime < call.modification_time[1]
    /\ call.item.base.content = "qq"
    /\ HasHash
    /\ call.metadata[1][Name("hash")] = digest([content |-> "p"], "SHA256")

\* C12: for a local file with trust_mtime on, a size field equal to the size
\* of the file, st_mtime not below modification_time and a hash field equal
\* to the digest of the file, should_upload returns
\* UpdateModificationTimeOnly
C12_TouchedIsUpdateMtime ==
    (/\ result # "pending"
     /\ IsLocalFile
     /\ call.trust_mtime
     /\ call.modification_time # None
     /\ SizeMatches
     /\ call.item.base.st_mtime >= call.modification_time[1]
     /\ HashMatches)
        => result = "UpdateModificationTimeOnly"

\* the two mtimes are the same and the digest was computed
C12_Witness ==
    /\ result = "UpdateModificationTimeOnly"
    /\ IsLocalFile
    /\ call.trust_mtime
    /\ call.modification_time # None
    /\ SizeMatches
    /\ call.item.base.st_mtime = call.modification_time[1]
    /\ HashMatches
    /\ digests = {"SHA256"}

C14_IncompatibleIsDoUpload ==
    (/\ result # "pending"
     /\ IsLocalFile
     /\ call.modification_time # None
     /\ SizeMatches
     /\ ~(call.trust_mtime /\ call.item.base.st_mtime < call.modification_time[1])
     /\ ~HashMatches)
        => result = "DoUpload"

IsGroupedItem == call.item.wrappers = <<>> /\ call.item.base.kind = "GroupedItem"

\* C15: for a grouped item with modification_time given, should_upload
\* returns DoUpload when the num-items, list-hash or content-hash field
\* differs from the value of the group, whatever trust_mtime is and whatever
\* the mtime of the members and modification_time are
C15_GroupMismatchIsDoUpload ==
    (/\ result # "pending"
     /\ IsGroupedItem
     /\ call.modification_time # None
     /\ call.metadata # None
     /\ \/ Get(call.metadata[1], Name("num-items")) # Str(num_items(call.item.base))
        \/ Get(call.metadata[1], Name("list-hash")) # list_hash(call.item.base)
        \/ Get(call.metadata[1], Name("content-hash")) # content_hash(call.item.base))
        => result = "DoUpload"

Range(seq) == {seq[i] : i \in DOMAIN seq}
Members(gs) == {<<g, j>> : g \in DOMAIN gs, j \in 1..MaxItems + 1}
Places(gs, item) ==
    {m \in Members(gs) : /\ m[2] \in DOMAIN gs[m[1]].underlying_list
                         /\ gs[m[1]].underlying_list[m[2]] = item}
MemberSizes(g) == SumSizes(g.underlying_list)

\* C17: when group_files has emitted its groups, every item kept for grouping
\* is a member of exactly one group, at one place of it, every member of a
\* group is an item kept for grouping, no group is empty, and with no item
\* kept no group is emitted
C17_GroupingPartition ==
    gpc = "emitted" =>
        /\ \A i \in DOMAIN small_files : Cardinality(Places(groups, small_files[i])) = 1
        /\ \A g \in DOMAIN groups :
               /\ groups[g].underlying_list # <<>>
               /\ Range(groups[g].underlying_list) \subseteq Range(small_files)
        /\ small_files = <<>> => groups = <<>>

\* three items in two groups, the group of the root with an element pulled up
C17_Witness ==
    /\ gpc = "emitted"
    /\ Len(small_files) = 3
    /\ Len(groups) = 2
    /\ \E g \in DOMAIN groups :
           /\ groups[g].key = <<suffix>>
           /\ \E j \in DOMAIN groups[g].underlying_list :
                  Len(groups[g].underlying_list[j].key) > 1

\* C18: when group_files has emitted its groups, the sizes of the members of
\* every group other than the group of the root (the empty prefix) add up to
\* the threshold or more, and at most one group stays below the threshold
C18_GroupingThreshold ==
    gpc = "emitted" =>
        /\ \A g \in DOMAIN groups :
               groups[g].key # <<suffix>> => MemberSizes(groups[g]) >= size_threshold
        /\ Cardinality({g \in DOMAIN groups : MemberSizes(groups[g]) < size_threshold}) <= 1

\* a group of a prefix that reaches the threshold and the group of the root
\* below it
C18_Witness ==
    /\ gpc = "emitted"
    /\ \E g \in DOMAIN groups :
           groups[g].key # <<suffix>> /\ MemberSizes(groups[g]) >= size_threshold
    /\ \E g \in DOMAIN groups :
           groups[g].key = <<suffix>> /\ MemberSizes(groups[g]) < size_threshold

KeyedMetadata(gs) == {<<gs[g].key, GroupedItem_metadata(gs[g])>> : g \in DOMAIN gs}

\* C19: a later scan that yields the same items in another order is grouped
\* into groups with the same keys and, per key, the same num-items, list-hash
\* and content-hash, so that should_upload of a group on the metadata stored
\* from the other order finds no difference
C19_ScanOrderIndependent ==
    regroups # <<>> => KeyedMetadata(regroups[1]) = KeyedMetadata(groups)

\* C20: the zip fileobj() makes of a group has one entry per member, in the
\* order of the members, named by the key of the member, and reading the
\* entry gives the content of the member
C20_ArchiveRoundTrip ==
    archive # <<>> =>
        LET self == groups[archive[1].group]
            zip == archive[1].zip
        IN /\ archive[1].raised = "no"
           /\ Len(zip) = Len(self.underlying_list)
           /\ \A i \in DOMAIN self.underlying_list :
                  /\ zip[i].info.filename = self.underlying_list[i].key
                  /\ ZipRead(zip, self.underlying_list[i].key) = Read(self.underlying_list[i])

\* the items of a scan that satisfy a test, in scan order
Known(item) == item.size # UnknownSize
BelowThreshold(item) == Known(item) /\ item.size < size_threshold
AtOrAbove(item) == ~BelowThreshold(item)

\* C21: once the first loop of the grouping stage has ended, it has not
\* raised, it has yielded, unmodified and in scan order, exactly the items
\* whose size is unknown or at or above the threshold, and it has kept for
\* grouping exactly the items whose size is known and below the threshold
C21_InputPartition ==
    gpc # "start" =>
        /\ gpc \notin {"TypeError", "RuntimeError"}
        /\ passed = SelectSeq(underlying_it, AtOrAbove)
        /\ small_files = SelectSeq(underlying_it, BelowThreshold)

\* the key of the file f in this run
KeyOf(f) == filename_xform(filename_xform_cmd, f)
\* the key transform gives the file f no key
Dropped(f) == returncode(filename_xform_cmd, f) = 0 /\ KeyOf(f) = ""

TransformFails ==
    \/ /\ pc = "scan"
       /\ returncode(filename_xform_cmd, "b") # 0
       /\ "b" \in todo
       /\ "b" \notin todo'
    \/ /\ pc = "put"
       /\ data_xform_cmd = "false"
       /\ pc' # "put"

\* C23: a step in which the key transform or the data transform exits non-zero
\* ends the run in the exception: no item is left to process, the sweep has not
\* run and delete_object has not been called, and nothing is put, deleted or
\* written to the cache after it until the next run starts.
C23_TransformFailureAborts ==
    [][/\ TransformFails /\ pc' # "crashed" =>
             /\ pc' = "failed"
             /\ todo' = {}
             /\ sweep_cache' = {}
             /\ delete_calls' = NoCalls
       /\ pc = "failed" /\ pc' = "failed" =>
             UNCHANGED <<bucket, s3_cache, put_calls, delete_calls>>]_vars

C23_Witness ==
    /\ pc = "failed"
    /\ returncode(filename_xform_cmd, "b") # 0
    /\ DOMAIN tree = {"b"}
    /\ vanishes = 0
    /\ runs = 1
    /\ "a" \in DOMAIN bucket
    /\ "a" \in DOMAIN s3_cache

\* C25: when the only file left to process has gone away (stat raises
\* FileNotFoundError), the step that takes it leaves the run in the loop with
\* nothing marked seen, so that the sweep runs next.
C25_LocalFailureSkipped ==
    [][\A f \in Files :
          /\ pc = "scan"
          /\ todo = {f}
          /\ f \notin DOMAIN tree
          /\ ~Dropped(f)
          /\ returncode(filename_xform_cmd, f) = 0
          /\ todo' = {}
          /\ pc' # "crashed"
          => pc' = "scan" /\ seen' = seen]_vars

\* the start of the part of the key the i-th token takes, given the lengths
RECURSIVE PartStart(_, _)
PartStart(lens, i) == IF i = 1 THEN 0 ELSE PartStart(lens, i - 1) + lens[i - 1]

\* the whole key is in the language of the pattern: the key can be cut into
\* one part per token, one character for a plain token and any number for a
\* starred one, every character fitting its token
WholeKeyMatches(pattern, key) ==
    \E lens \in [DOMAIN pattern -> 0..Len(key)] :
        /\ PartStart(lens, Len(pattern) + 1) = Len(key)
        /\ \A i \in DOMAIN pattern :
              /\ ~pattern[i].star => lens[i] = 1
              /\ \A j \in 1..lens[i] : Fits(pattern[i], key[PartStart(lens, i) + j])

Kept(entry) == ~WholeKeyMatches(exclude_re, entry.key)
Taken == SubSeq(excl_it, 1, epos)

\* C30: what the exclusion stage has yielded is what it has taken of its
\* input, the same items in the same order, without the items whose whole key
\* is matched by the pattern, and excluded_files is the number of items left out.
C30_Exclusion ==
    /\ yielded = SelectSeq(Taken, Kept)
    /\ excluded_files = epos - Len(yielded)

\* 'f' given f, foo and bf: f is left out, foo and bf are yielded
C30_Witness ==
    /\ epos = Len(excl_it)
    /\ exclude_re = <<Lit("f")>>
    /\ excluded_files = 1
    /\ Len(yielded) = 2
    /\ yielded[1].key = <<"f", "o", "o">>
    /\ yielded[2].key = <<"b", "f">>

\* C24: when the transform process exits non-zero, a read that returns data
\* does not raise, and the read that finds the output at its end raises
\* OSError.
C24_FailureAtEndOfOutput ==
    subprocess /\ return_code # 0 =>
        \A i \in DOMAIN reads :
            /\ reads[i].data # <<>> => ~reads[i].raised
            /\ reads[i].data = <<>> => reads[i].raised

\* the same of the reader of s3_backup/__init__.py alone
C24_DataXformAlone == reader = "DataXform" => C24_FailureAtEndOfOutput

\* what cache[key] returns for the tables t
Entry(t, key) == getitem(t.s3_object_info, t.s3_metadata, key)

\* C26: after cache[key] = value returned, cache[key] is exactly value's size,
\* its modification time in whole seconds and its metadata, nothing of an
\* earlier entry of the key is left and the entries of the other keys are as
\* before; the same assignment done twice leaves the tables as done once; a
\* crash during the assignment leaves the entry that was there before
C26_PutIsUpsert ==
    /\ op.name = "setitem" /\ op.outcome = "returned" =>
          /\ Entry(Tables, op.key) =
                [raised |-> "no", s3_size |-> op.value.s3_size,
                 s3_modification_time |-> Seconds(op.value.s3_modification_time),
                 metadata |-> op.value.metadata]
          /\ \A k \in (CacheKeys \cup DOMAIN bucket \cup DOMAIN prev.s3_object_info) \ {op.key} :
                Entry(Tables, k) = Entry(prev, k)
          /\ op.again => Tables = prev
    /\ op.name = "setitem" /\ op.outcome \in {"crashed", "IntegrityError"} => Tables = prev

\* an entry with metadata was replaced by one with other names, next to an
\* entry of another key
C26_Witness ==
    /\ op.name = "setitem"
    /\ op.outcome = "returned"
    /\ op.key = "a"
    /\ Entry(prev, "a").raised = "no"
    /\ DOMAIN Entry(prev, "a").metadata \ DOMAIN op.value.metadata # {}
    /\ Entry(prev, "b").raised = "no"

\* the same assignment was done twice
C26_WitnessTwice == op.name = "setitem" /\ op.outcome = "returned" /\ op.again

\* the process was killed between the statements of an assignment
C26_WitnessCrash ==
    /\ op.name = "setitem"
    /\ op.outcome = "crashed"
    /\ Entry(prev, op.key).raised = "no"

\* C27: once clear_flags was called, whatever flag, assignment and deletion
\* follow, iterate_unflagged gives exactly the keys that have an entry and
\* were not flagged since; flag leaves every entry as it was
C27_Unflagged ==
    /\ has_flag =>
          iterate_unflagged(s3_object_info, flag) =
            {k \in CacheKeys \cup DOMAIN bucket \cup DOMAIN prev.s3_cache :
               Entry(Tables, k).raised = "no" /\ k \notin flagged}
    /\ op.name = "flag" => Tables = prev

\* a key was flagged, then another key got its entry: one key is flagged and
\* one is not
C27_Witness ==
    /\ has_flag
    /\ op.name = "setitem"
    /\ op.outcome = "returned"
    /\ flagged # {}
    /\ flagged \subseteq DOMAIN s3_object_info
    /\ op.key \notin flagged
    /\ op.key \notin DOMAIN prev.s3_object_info

\* C28: opening a database that has neither s3_object_info nor s3_cache
\* raises ValueError and creates nothing; when initialize_cache has returned
\* there is exactly one entry per object of the bucket, with the size, the
\* modification time and all the metadata of the object
C28_AbsentThenRebuilt ==
    /\ op.name = "open" /\ ~prev.has_v2 /\ ~prev.has_cache =>
          op.outcome = "ValueError" /\ Tables = prev /\ cpc = "closed"
    /\ op.name = "initialize_cache" /\ op.outcome = "returned" =>
          /\ DOMAIN s3_object_info = DOMAIN bucket
          /\ \A k \in DOMAIN bucket :
                Entry(Tables, k) =
                  [raised |-> "no", s3_size |-> bucket[k].size,
                   s3_modification_time |-> bucket[k].lastModified,
                   metadata |-> bucket[k].metadata]

\* the database was empty, opening it raised ValueError, and the cache was
\* built from a bucket with an object without metadata and one with metadata
\* of someone else
C28_Witness ==
    /\ op.name = "initialize_cache"
    /\ op.outcome = "returned"
    /\ ~prev.has_v2
    /\ ~prev.has_cache
    /\ \E k \in DOMAIN bucket : bucket[k].metadata = <<>>
    /\ \E k \in DOMAIN bucket : "other" \in DOMAIN bucket[k].metadata

\* opening the database raised ValueError
C28_WitnessAbsent == op.name = "open" /\ op.outcome = "ValueError"

\* the database held only the table s3_cache when it was opened, and the
\* opening has come to its end
Migrated ==
    /\ op.name = "open"
    /\ prev.has_cache
    /\ ~prev.has_v2
    /\ op.outcome \in {"returned", "IntegrityError"}

\* the entry of key holds what the row of s3_cache held
SameAsLegacy(key) ==
    LET e == Entry(Tables, key)
        row == prev.s3_cache[key]
    IN /\ e.raised = "no"
       /\ e.s3_size = row.size
       /\ e.s3_modification_time = row.mtime
       /\ DOMAIN e.metadata = {"plaintext-size", "plaintext-hash"}
       /\ row.plaintext_size # NullInt => e.metadata["plaintext-size"] = Str(row.plaintext_size)
       /\ row.plaintext_hash # NullText => e.metadata["plaintext-hash"] = row.plaintext_hash

\* C29: opening a database that has only the table s3_cache succeeds whatever
\* its rows are, rows with an empty plaintext size or hash included; then
\* every key of s3_cache has an entry with the same size and mtime and its two
\* columns as the metadata plaintext-size and plaintext-hash, no other key has
\* one, and s3_cache is dropped
C29_LegacyMigration ==
    Migrated =>
      /\ op.outcome = "returned"
      /\ ~has_cache
      /\ DOMAIN s3_object_info = DOMAIN prev.s3_cache
      /\ \A k \in DOMAIN prev.s3_cache : SameAsLegacy(k)

\* no row of s3_cache has an empty column
FullRows(t) ==
    \A k \in DOMAIN t : t[k].plaintext_size # NullInt /\ t[k].plaintext_hash # NullText

\* the migration of rows without an empty column: it is as C29 says
C29_FullRowsMigrate ==
    Migrated /\ FullRows(prev.s3_cache) =>
      /\ op.outcome = "returned"
      /\ ~has_cache
      /\ DOMAIN s3_object_info = DOMAIN prev.s3_cache
      /\ \A k \in DOMAIN prev.s3_cache : SameAsLegacy(k)

\* the migration of a row with an empty column: IntegrityError, and the
\* database is as it was, s3_cache included
C29_EmptyColumnRefused ==
    Migrated /\ ~FullRows(prev.s3_cache) =>
      op.outcome = "IntegrityError" /\ Tables = prev /\ cpc = "closed"

\* a table with rows was migrated
C29_WitnessMigrated ==
    Migrated /\ op.outcome = "returned" /\ prev.s3_cache # <<>>

\* a row with an empty column was met
C29_WitnessRefused == Migrated /\ op.outcome = "IntegrityError"

\* the tree has been built
Built == gpc \in {"built", "flat", "merged", "compact", "emitted"}

\* every element of the node and of the nodes below it has, after the labels
\* from the root, the key of its item
RECURSIVE KeysKept(_, _)
KeysKept(node, prefix) ==
    /\ \A i \in DOMAIN node.elements :
          prefix \o node.elements[i].key = node.elements[i].item.key
    /\ \A c \in DOMAIN node.key_prefixes :
          KeysKept(node.key_prefixes[c].node, prefix \o node.key_prefixes[c].prefix)

\* p is a prefix of the key
IsPrefix(p, key) == Len(p) <= Len(key) /\ SubSeq(key, 1, Len(p)) = p

\* the key recurse_tree gave the group, before the suffix
GroupPrefix(g) == SubSeq(g.key, 1, Len(g.key) - 1)

\* C38: after add_elements, after each flatten and after merge_min_size,
\* for every element of every node the labels from the root to the node
\* followed by the key of the element are the key of its item; and the key
\* of every emitted group is a prefix of the key of each of its members
C38_TrieKeys ==
    /\ Built => KeysKept(group_tree, <<>>)
    /\ gpc = "emitted" =>
          \A g \in DOMAIN groups :
             \A j \in DOMAIN groups[g].underlying_list :
                IsPrefix(GroupPrefix(groups[g]), groups[g].underlying_list[j].key)

\* the tree after the second flatten: an element pulled up to the root with
\* a key of two characters next to a label of two characters
C38_Witness ==
    /\ gpc = "compact"
    /\ \E i \in DOMAIN group_tree.elements : Len(group_tree.elements[i].key) > 1
    /\ \E c \in DOMAIN group_tree.key_prefixes :
          /\ Len(group_tree.key_prefixes[c].prefix) > 1
          /\ group_tree.key_prefixes[c].node.elements # <<>>

\* no two labels below one node are equal, in the node and below it
RECURSIVE LabelsDistinct(_)
LabelsDistinct(node) ==
    /\ \A c, d \in DOMAIN node.key_prefixes :
          node.key_prefixes[c].prefix = node.key_prefixes[d].prefix => c = d
    /\ \A c \in DOMAIN node.key_prefixes : LabelsDistinct(node.key_prefixes[c].node)

\* C39: the keys of the groups one call of group_files emits are pairwise
\* distinct, and no step gives two edges below one node the same label
C39_GroupKeysDistinct ==
    /\ Built => LabelsDistinct(group_tree)
    /\ gpc = "emitted" =>
          \A g, h \in DOMAIN groups : groups[g].key = groups[h].key => g = h

\* two groups were emitted, one of them below a label that flatten made of
\* two
C39_Witness ==
    /\ gpc = "emitted"
    /\ Len(groups) = 2
    /\ \E g \in DOMAIN groups : Len(groups[g].key) = 3

\* the key ends with the suffix of the grouping stage
HasSuffix(key) == key # <<>> /\ key[Len(key)] = suffix

\* an item that does not know its size comes before place i of the scan
UnknownBefore(i) == \E j \in 1..(i - 1) : underlying_it[j].size = UnknownSize

\* C40: no key of an emitted group is the key of an item passed through:
\* every group key ends with the suffix, no item passed through has a key
\* that ends with it, and the first loop stops with RuntimeError at an item
\* whose key ends with it
C40_NoArchiveKeyClash ==
    /\ \A g \in DOMAIN groups : HasSuffix(groups[g].key)
    /\ \A i \in DOMAIN passed : ~HasSuffix(passed[i].key)
    /\ \A g \in DOMAIN groups : \A i \in DOMAIN passed : groups[g].key # passed[i].key
    /\ gpc # "start" =>
          \A i \in DOMAIN underlying_it :
             HasSuffix(underlying_it[i].key) /\ ~UnknownBefore(i) => gpc = "RuntimeError"

\* RuntimeError at an item whose key ends with the suffix, after an item was
\* passed through
C40_Witness ==
    /\ gpc = "RuntimeError"
    /\ passed # <<>>
    /\ \E i \in DOMAIN underlying_it :
          HasSuffix(underlying_it[i].key) /\ underlying_it[i].size >= size_threshold

\* groups were emitted next to items passed through
C40_WitnessEmitted == gpc = "emitted" /\ groups # <<>> /\ passed # <<>>

\* the row of key k is created or changed by the step
RowWritten(k) ==
    /\ k \in DOMAIN s3_cache'
    /\ k \notin DOMAIN s3_cache \/ s3_cache'[k] # s3_cache[k]

\* C34: a step of a run that creates or changes the cache row of a key (the
\* filling of an absent cache aside) is the cache write of replace for the
\* key in hand, after supersedes gave a reason to upload it and after
\* upload_fileobj returned and left the object in the bucket; a step in which
\* upload_fileobj or the transform it reads from fails ends the run and
\* changes no row and no object
C34_CacheWriteAfterPut ==
    [][/\ \A k \in DOMAIN s3_cache' :
             pc # "open" /\ RowWritten(k) =>
                /\ pc = "cachew"
                /\ k = cur.key
                /\ put_calls[k] >= 1
                /\ k \in DOMAIN bucket
                /\ bucket[k].body = DataXformBody(data_xform_cmd, tree[cur.file].c)
                /\ Supersedes(tree[cur.file], k, s3_cache) = "upload"
       /\ pc = "put" /\ pc' = "failed" => s3_cache' = s3_cache /\ bucket' = bucket]_vars

\* a file newer than its row was uploaded and the row was written
C34_Witness ==
    /\ pc = "mark"
    /\ cur.key \in DOMAIN s3_cache
    /\ put_calls[cur.key] = 1
    /\ s3_cache[cur.key].mtime > 0
    /\ cur.key \in DOMAIN bucket
    /\ bucket[cur.key].lastModified > 0

\* the upload of a file without a row failed: there is no row
C34_WitnessFailed ==
    /\ pc = "failed"
    /\ runs = 1
    /\ filename_xform_cmd = "None"
    /\ has_cache
    /\ put_calls = NoCalls
    /\ \E f \in DOMAIN tree : f \notin DOMAIN s3_cache

\* the files of the tree the loop is done with
Processed == (DOMAIN tree \ todo) \ {cur.file}

\* the sweep is running
Sweeping == pc \in {"sweep", "sweepc"}

\* C35: between start_seen and the end of the run the table seen holds the
\* keys of the files the loop is done with, no more and no less: it is
\* cleared once, before the first file; delete_object is called and a row is
\* deleted only in the sweep, and the sweep runs only when list_files has no
\* file left, every file of the tree has its key in seen, and every file that
\* was to be uploaded has been put
C35_SweepAfterPipeline ==
    /\ pc \in {"scan", "put", "cachew", "mark"} =>
          /\ seen = {KeyOf(f) : f \in Processed}
          /\ delete_calls = NoCalls
          /\ sweep_cache = {}
    /\ Sweeping =>
          /\ todo = {}
          /\ \A f \in DOMAIN tree : KeyOf(f) \in seen
          /\ \A k \in Keys : delete_calls[k] > 0 => k \notin seen
          /\ \A f \in DOMAIN tree :
                ~dry_run /\ KeyOf(f) \notin sweep_cache => put_calls[KeyOf(f)] > 0

\* no row leaves the cache outside the sweep
C35_RowsDeletedInSweep ==
    [][(\E k \in DOMAIN s3_cache : k \notin DOMAIN s3_cache') => pc = "sweepc"]_vars

\* the sweep deletes an object after two files were processed, one of them
\* uploaded
C35_Witness ==
    /\ pc = "sweepc"
    /\ DOMAIN tree = {"a", "b"}
    /\ seen = {"a", "b"}
    /\ \E k \in Keys : put_calls[k] > 0
    /\ \E k \in Keys : delete_calls[k] > 0

\* C36: when the key in hand is already in seen (an earlier file of the run
\* was given the same key), marking it is accepted: the run goes on with the
\* next file and the row written for the later file stays
C36_CollisionAccepted ==
    [][pc = "mark" /\ cur.key \in seen /\ pc' # "crashed" =>
          pc' = "scan" /\ s3_cache' = s3_cache]_vars

\* what the code does with the second file of a key: mark_as_seen raises and
\* the run ends, with the row written for that file in the cache
C36_CollisionRaises ==
    [][pc = "mark" /\ cur.key \in seen /\ pc' # "crashed" =>
          pc' = "failed" /\ s3_cache' = s3_cache]_vars

\* the second file of a key is about to be marked
C36_WitnessCollision == pc = "mark" /\ cur.key \in seen

\* the call was made and returned
Returned == result # "pending"

\* md is m with every name behind the prefix
IsPrefixed(md, m) ==
    /\ DOMAIN md = {<<METADATA_PREFIX>> \o n : n \in DOMAIN m}
    /\ \A n \in DOMAIN m : md[<<METADATA_PREFIX>> \o n] = m[n]

\* md is what the item gives as its metadata, with or without fields next to
\* it whose name does not start with the prefix
OwnMetadata(md, item) ==
    /\ md # None
    /\ \E x \in Extras : md = Some(x @@ item_metadata(item))

\* C31: metadata() of a DataTransform is the metadata of the item it wraps
\* with every name behind "plaintext-"; should_upload of the DataTransform on
\* its own metadata, whatever modification time it is given and whatever
\* fields without the prefix stand next to it, returns what should_upload of
\* the wrapped item returns on the metadata of the wrapped item
C31_MetadataRoundTrip ==
    Returned /\ Head(call.item.wrappers) = "DataTransform" =>
        /\ call.method = "metadata" =>
              IsPrefixed(result[1], item_metadata(Underlying(call.item)))
        /\ call.method = "should_upload" /\ OwnMetadata(call.metadata, call.item) =>
              result[1] = should_upload(Underlying(call.item), call.modification_time,
                                        Some(item_metadata(Underlying(call.item))))

\* a DataTransform around a local file, asked with its own metadata and the
\* fields size and hash without the prefix next to it, about an object newer
\* than the file: DontUpload
C31_Witness ==
    /\ Returned
    /\ call.item.wrappers = <<"DataTransform">>
    /\ call.item.base.kind = "LocalFile"
    /\ call.method = "should_upload"
    /\ call.metadata # None
    /\ OwnMetadata(call.metadata, call.item)
    /\ Name("size") \in DOMAIN call.metadata[1]
    /\ call.modification_time # None
    /\ call.trust_mtime
    /\ result[1] = "DontUpload"

\* the call made on the item the wrapper holds
InvokeUnderlying ==
    Invoke([call EXCEPT !.item = Underlying(call.item)])

\* C37: size(), fileobj(), metadata(), hash(), mtime() and should_upload of a
\* KeyTransformCmd, KeyTransformSub or SuffixedKey return what the same call
\* on the item it wraps returns
C37_WrapperDelegates ==
    Returned /\ Head(call.item.wrappers) \in KeyWrappers =>
        result[1] = InvokeUnderlying

\* what the three classes do pass on: should_upload and fileobj, and for
\* KeyTransformCmd and KeyTransformSub size and metadata as well
C37_DefinedMethodsDelegate ==
    /\ Returned
    /\ Head(call.item.wrappers) \in KeyWrappers
    /\ \/ call.method \in {"should_upload", "fileobj"}
       \/ /\ call.method \in {"size", "metadata"}
          /\ Head(call.item.wrappers) # "SuffixedKey"
    => result[1] = InvokeUnderlying

\* metadata() of a SuffixedKey around a local file returned
C37_WitnessSuffixed ==
    /\ Returned
    /\ call.item.wrappers = <<"SuffixedKey">>
    /\ call.method = "metadata"
    /\ call.item.base.kind = "LocalFile"

\* the pump thread, if there is one, the process and the consumer have ended
Terminated ==
    /\ stdin_pump \in {"none", "ended", "BrokenPipeError"}
    /\ Exited
    /\ consumer \in {"left", "OSError"}

\* the process waits in a write to its full error pipe
BlockedOnStderr ==
    transform_process.op = "write_stderr" /\ stderr_pipe = PipeCapacity

\* the pump waits in a write to the full input pipe, the process in a write
\* to a full pipe, and the consumer for the process
Stuck ==
    /\ stdin_pump = "write" /\ stdin_pipe = PipeCapacity /\ ~Exited
    /\ \/ BlockedOnStderr
       \/ transform_process.op = "write_stdout" /\ stdout_pipe = PipeCapacity
    /\ consumer \in {"read", "wait"} /\ stdout_pipe = 0

\* C32: with an in-memory buffer upstream and a consumer that reads the
\* output up to its end and then closes it, the pump thread, the process and
\* the consumer all end
C32_AllTerminate ==
    (upstream = "BytesIO" /\ ~fault) ~> Terminated

\* C32, its second half: in no state the pump waits on the full input pipe
\* while the process waits on a full pipe and the consumer for the process
C32_NeverStuck ==
    upstream = "BytesIO" /\ ~fault => ~Stuck

\* what does hold: they all end, unless the process comes to wait in a write
\* to its error pipe, which nothing reads while the process runs
C32_EndOrStderrFull ==
    (upstream = "BytesIO" /\ ~fault) ~> (Terminated \/ BlockedOnStderr)

\* the pump has a blob in hand and the input pipe is full, the process waits
\* on its full error pipe, and the consumer waits in read()
C32_WitnessStuck ==
    /\ upstream = "BytesIO"
    /\ ~fault
    /\ Stuck
    /\ BlockedOnStderr
    /\ consumer = "read"

\* the content scope of the item has been left: normally, with the OSError
\* of close(), or with the exception of the consumer
ScopeLeft == consumer \in {"left", "OSError", "raised"}

\* C33: whenever the content scope has been left, the process has been
\* waited for, the pump thread, if one was started, has been joined, and the
\* upstream file handle has been closed
C33_ScopedRelease ==
    ScopeLeft =>
        /\ waited
        /\ upstream = "BytesIO" => joined
        /\ upstream = "file" => f_orig = "closed"

\* what does hold: the upstream file is closed on every exit, and after a
\* normal end the process has been waited for and the pump joined
C33_UpstreamClosed ==
    /\ ScopeLeft /\ upstream = "file" => f_orig = "closed"
    /\ consumer = "left" => waited /\ (upstream = "BytesIO" => joined)

\* the consumer raised while the process was running
C33_WitnessRaised ==
    /\ consumer = "raised"
    /\ ~Exited
    /\ ~waited

\* close() raised OSError and the pump thread is still in its loop
C33_WitnessNotJoined ==
    /\ consumer = "OSError"
    /\ stdin_pump \in {"read", "write", "close"}
    /\ ~joined
====
